---- MODULE Spec2Model ----
(***************************************************************************)
(* Ingestion pipeline of the Smart-Email-Classifier backend:               *)
(*   backend/main.py            fetch_and_classify, get_emails,            *)
(*                              fetch_emails, reclassify_message           *)
(*   backend/gmail_helpers.py   fetch_and_parse_new_emails                 *)
(*   backend/processed_store.py ProcessedStore (processed_ids.json)        *)
(*   backend/processed_emails_store.py ProcessedEmailsStore                *)
(*                              (processed_emails.json)                    *)
(* The two store files and the in-memory cache PROCESSED_ITEMS are the     *)
(* shared state; every request is a call with its own locals.  A handler   *)
(* is cut into steps at its calls to the provider, the classifier and the  *)
(* stores, so that the file contents between two store writes are states   *)
(* of the model.                                                           *)
(***************************************************************************)
EXTENDS Integers, Sequences, FiniteSets, TLC

\* ------------------------------------------------------------------ bounds
MaxMsgs == 2        \* message IDs the provider knows: 1..MaxMsgs
MaxList == 3        \* longest listing the provider returns
MaxReq  == 2        \* largest max_results query parameter tried

MsgIds == 1..MaxMsgs
Calls  == {"c1"}

Min(a, b) == IF a <= b THEN a ELSE b
Max(a, b) == IF a >= b THEN a ELSE b

\* all sequences over S of length 0..n
RECURSIVE SeqsUpTo(_, _)
SeqsUpTo(S, n) ==
    IF n = 0 THEN {<<>>}
    ELSE LET shorter == SeqsUpTo(S, n - 1)
         IN  shorter \cup {Append(s, x) : s \in {t \in shorter : Len(t) = n - 1}, x \in S}

Range(s) == {s[k] : k \in 1..Len(s)}

\* ------------------------------------------------- the classifier's replies
\* EmailClassifier.predict: a result dict; on an internal failure success is
\* False and top_categories is empty.
FailedResult == [success |-> FALSE, top_categories |-> <<>>]
\* the replies tried: a failure, a ranking of one label, a ranking of three
\* and a ranking of two that gives a different record
PredictResults ==
    {FailedResult,
     [success |-> TRUE, top_categories |-> <<"A">>],
     [success |-> TRUE, top_categories |-> <<"B", "A", "C">>],
     [success |-> TRUE, top_categories |-> <<"A", "C">>]}

\* the slice forgotten: the whole list is kept
TakeAll(s) == s

\* python s[:2]
Take2(s) == SubSeq(s, 1, Min(2, Len(s)))

\* result['top_2_categories'] as predict builds it
Top2Categories(res) == Take2(res.top_categories)

\* the truncation forgotten: every new ID is fetched
SliceNone(s, n) == s

\* python s[:n] for any integer n
SliceTo(s, n) ==
    IF n >= 0 THEN SubSeq(s, 1, Min(n, Len(s)))
    ELSE SubSeq(s, 1, Max(0, Len(s) + n))

\* ------------------------------------------------------------------- state
VARIABLES
    idsFile,      \* processed_ids.json: the list under "processed", as a set
    emailsFile,   \* processed_emails.json: [shape, emails], emails an id -> record map
    cache,        \* main.PROCESSED_ITEMS
    classifier,   \* which object simple_main.classifier is bound to
    call,         \* per call: position and locals of the running handler
    h,            \* per call: history of what the call did (observation only)
    thread,       \* per thread: the store method it is running, step by step
    lock,         \* holder of ProcessedStore._lock and of ProcessedEmailsStore._lock
    sh,           \* history of the store files (observation only)
    fn            \* the library function being run on its own: arguments, locals, result

vars == <<idsFile, emailsFile, cache, classifier, call, h, thread, lock, sh, fn>>

\* what the request handlers leave alone / what the store methods leave alone
storeVars == <<thread, lock, sh>>
handlerVars == <<cache, classifier, call, h>>

\* no library function is being run on its own
NoFn == [op |-> "none"]

EmptyMap == [m \in {} |-> 0]

Item(mid, cats) == [id |-> mid, categories |-> cats]

IdleCall ==
    [pc |-> "idle", kind |-> "none", max_results |-> 0, ids |-> <<>>,
     ids_new |-> <<>>, messages_data |-> <<>>, batch_results |-> <<>>,
     new_results |-> <<>>, idx |-> 1]

\* What a call has done so far, recorded for the properties only; no action
\* reads it.
\*   P            the processed-ID set /fetch-and-classify filtered its listing
\*                with (the helper path has no such step: it asks the store
\*                again before each fetch)
\*   attempted    IDs the call asked the provider for, in order
\*   fetched      IDs whose fetch succeeded, in order
\*   fetchFailed  IDs whose fetch failed
\*   batched      IDs handed to predict_batch
\*   batchReturned  predict_batch returned a list of results
\*   single       IDs handed to model_predict_fn one at a time, in order
\*   good / bad   IDs with a classification result that was successful with
\*                at least two labels / that was not
\*   added        IDs the call added to the processed-ID file
\*   wrote        IDs of the records the call wrote to the record file
\*   recordWriteFailed  the call's write to the record file raised
\*   earlier      IDs the call that returned before this one, a
\*                /fetch-and-classify too, fetched and classified while they
\*                were not marked
NoHistory ==
    [P |-> {}, attempted |-> <<>>, fetched |-> <<>>, fetchFailed |-> {},
     batched |-> <<>>, batchReturned |-> FALSE,
     single |-> <<>>, good |-> {}, bad |-> {}, added |-> {}, wrote |-> {},
     recordWriteFailed |-> FALSE, earlier |-> {}]

\* a classification result that is successful and carries at least two labels
GoodResult(res) == res.success /\ Len(res.top_categories) >= 2

\* the history after one classification result for mid
Classified(hist, mid, res) ==
    IF GoodResult(res) THEN [hist EXCEPT !.good = @ \cup {mid}]
    ELSE [hist EXCEPT !.bad = @ \cup {mid}]

\* the history after STORE.add(mid) turned file into file2
Marked(hist, file, file2) == [hist EXCEPT !.added = @ \cup (file2 \ file)]

\* ---------------------------------------------------------- ProcessedStore
\* the empty message id: "" (or None), false in "if x" and "if mid"
EmptyId == 0

\* ProcessedStore._read_ids: set(str(x) for x in items if x)
ReadIds(file) == {x \in file : x # EmptyId}

\* ProcessedStore.has
Has(file, mid) == mid \in ReadIds(file)

\* ProcessedStore.add when the write succeeds: the file afterwards
StoreAdd(file, mid) ==
    IF mid \notin ReadIds(file) THEN ReadIds(file) \cup {mid} ELSE file

\* every id of the call replaces the stored set
AddManyReplacing(file, S) == {x \in S : x # EmptyId}

\* ProcessedStore.add_many when the write succeeds: the file afterwards
AddMany(file, S) == ReadIds(file) \cup {x \in S : x # EmptyId}

\* STORE.add can fail only when it writes
AddOutcomes(file, mid) ==
    IF mid \notin ReadIds(file) THEN {"ok", "raise"} ELSE {"ok"}

\* ---------------------------------------------------- ProcessedEmailsStore
\* data.get("emails", {}) if isinstance(data, dict) else {}
EmailsOf(file) == IF file.shape = "dict" THEN file.emails ELSE EmptyMap

\* an id written with blanks around it: " 1" for the id 1, and the id of
\* blanks only for the empty id
PadBase == 10
Padded(mid) == mid + PadBase

\* mid = str(it.get("id") or "").strip(): the key a record is stored under
Key(id) == IF id >= PadBase THEN id - PadBase ELSE id

\* index of the last item of items whose key is mid
LastIndexOf(items, mid) ==
    CHOOSE k \in 1..Len(items) :
        /\ Key(items[k].id) = mid
        /\ \A j \in (k + 1)..Len(items) : Key(items[j].id) # mid

\* "for it in items: mid = ...; if mid: emails[mid] = it": the assignments the
\* loop makes, the last one for each id
Updates(items) ==
    [m \in {Key(items[k].id) : k \in 1..Len(items)} \ {EmptyId} |->
        items[LastIndexOf(items, m)]]

\* a record found in the file is dropped when the call names its id again
WithUpdatesDropping(file, upd) ==
    LET emails == EmailsOf(file)
    IN  [shape  |-> "dict",
         emails |-> [m \in ((DOMAIN emails) \cup (DOMAIN upd))
                              \ ((DOMAIN emails) \cap (DOMAIN upd)) |->
                        IF m \in DOMAIN upd THEN upd[m] ELSE emails[m]]]

\* the read-modify-write of upsert and upsert_many: the document written,
\* {"emails": emails} with the assignments upd made on the emails read
WithUpdates(file, upd) ==
    LET emails == EmailsOf(file)
    IN  [shape  |-> "dict",
         emails |-> [m \in (DOMAIN emails) \cup (DOMAIN upd) |->
                        IF m \in DOMAIN upd THEN upd[m] ELSE emails[m]]]

\* a record already stored is kept: only new ids are inserted
UpsertManyKeeping(file, items) ==
    LET emails == EmailsOf(file)
        newIds == {Key(items[k].id) : k \in 1..Len(items)} \ {EmptyId}
    IN  [shape  |-> "dict",
         emails |-> [m \in (DOMAIN emails) \cup newIds |->
                        IF m \in DOMAIN emails THEN emails[m]
                        ELSE items[LastIndexOf(items, m)]]]

\* ProcessedEmailsStore.upsert_many when the write succeeds: the file afterwards
UpsertMany(file, items) == WithUpdates(file, Updates(items))

\* ProcessedEmailsStore.upsert when the write succeeds, or the early return
Upsert(file, item) ==
    IF Key(item.id) = EmptyId THEN file ELSE WithUpdates(file, Updates(<<item>>))

\* ProcessedEmailsStore.overwrite_all when the write succeeds
OverwriteAll(file, items) == [shape |-> "dict", emails |-> Updates(items)]

\* no file at the path
NoFile == [shape |-> "absent", emails |-> EmptyMap]

\* every construction starts from an empty store
ConstructResetting(file) == [shape |-> "dict", emails |-> EmptyMap]

\* ProcessedEmailsStore.__init__: "if not self.path.exists():
\* self._atomic_write({"emails": {}})"
Construct(file) ==
    IF file.shape = "absent" THEN [shape |-> "dict", emails |-> EmptyMap] ELSE file

\* ProcessedStore.__init__ on the same path, run first: "if not
\* self.emails_path.exists(): self._atomic_write_emails([])"
ConstructLegacy(file) ==
    IF file.shape = "absent" THEN [shape |-> "list", emails |-> EmptyMap] ELSE file

\* ProcessedStore._read_emails_list: the records of either shape, by id
ReadEmailsList(file) == file.emails

\* ProcessedStore.save_classified: replace the object with the same id or
\* append, and write the list
SaveClassifiedFile(file, item) ==
    IF item.id = EmptyId THEN file
    ELSE LET emails == ReadEmailsList(file)
         IN  [shape  |-> "list",
              emails |-> [m \in (DOMAIN emails) \cup {item.id} |->
                             IF m = item.id THEN item ELSE emails[m]]]

\* None
NoRecord == [id |-> EmptyId, categories |-> <<>>]

\* ProcessedEmailsStore.get: emails.get(str(message_id))
Get(file, mid) ==
    IF mid \in DOMAIN EmailsOf(file) THEN EmailsOf(file)[mid] ELSE NoRecord

\* ProcessedEmailsStore.get_all, as the set of records
GetAll(file) == {EmailsOf(file)[m] : m \in DOMAIN EmailsOf(file)}

StoredIds(file) == DOMAIN EmailsOf(file)

\* ------------------------------------------------------------------- cache
\* no id counts as seen
SeenNone(c) == {}

\* seen = {it.get("id") for it in PROCESSED_ITEMS}, with every seen.add(...)
\* that follows an append: the ids of the cache as it is now
Seen(c) == {c[k].id : k \in 1..Len(c)}

RECURSIVE MergeCache(_, _)
\* seen = {ids of PROCESSED_ITEMS}; append every item whose id is not seen
MergeCache(c, items) ==
    IF items = <<>> THEN c
    ELSE LET it == Head(items)
         IN  IF it.id \in Seen(c)
             THEN MergeCache(c, Tail(items))
             ELSE MergeCache(Append(c, it), Tail(items))

\* ------------------------------------------- the store methods, step by step
\* A thread runs one method of ProcessedStore (processed_ids.json) or of
\* ProcessedEmailsStore (processed_emails.json) at a time: it calls, takes
\* the lock and reads, writes the temporary file, flushes it, and renames it
\* over the target.
MaxItems == 2       \* longest record list handed to upsert_many / overwrite_all

Threads == {"t1", "t2"}

\* the two label pairs a record can carry
CatVersions == {<<"B", "A">>, <<"A", "C">>}

Records == {Item(m, cats) : m \in MsgIds \cup {EmptyId}, cats \in CatVersions}
ItemLists == SeqsUpTo(Records, MaxItems)
\* what the record lists come to in the loop of upsert_many / overwrite_all
UpdateSets == {Updates(items) : items \in ItemLists}
IdSets == SUBSET (MsgIds \cup {EmptyId})

IdsOps == {"add", "add_many"}
UpsertOps == {"upsert", "upsert_many"}
RecordsOps == UpsertOps \cup {"overwrite_all"}

\*   pc          idle, lock (called, waiting for the lock), write (lock held,
\*               file read, no temporary file yet), flush (temporary file
\*               partly written), replace (temporary file complete), done
\*   ids         the argument of add / add_many / has
\*   updates     the assignments the records call makes (Updates of its list)
\*   readIds / readEmails   the target file as the call found it under the lock
\*   result      what has returned
\*   overlapped  the call started while another call was running
\*               (observation only)
IdleThread ==
    [pc |-> "idle", op |-> "none", ids |-> {}, updates |-> EmptyMap,
     readIds |-> {}, readEmails |-> NoFile, result |-> FALSE, overlapped |-> FALSE]

\*   added    the ids of the add / add_many calls that have written
\*   crashed  the process has just died and been started again
\*   torn     ... while a temporary file was partly written
NoStoreHistory == [added |-> {}, crashed |-> FALSE, torn |-> FALSE]

InFlight(th) == th.pc \in {"lock", "write", "flush", "replace"}
Writing(th) == th.pc \in {"write", "flush", "replace"}

OthersRunning(t) == \E u \in Threads \ {t} : InFlight(thread[u])

\* a call starts: the crash record of the history is over
Calling == [sh EXCEPT !.crashed = FALSE, !.torn = FALSE]

\* the lock is never waited for
IdsLockIgnored(l) == TRUE

\* "with self._lock:" of ProcessedStore
IdsLockFree(l) == l.ids = "free"

\* the lock is never waited for
EmailsLockIgnored(l) == TRUE

\* "with self._lock:" of ProcessedEmailsStore
EmailsLockFree(l) == l.emails = "free"

\* the id add was called with
AddArg(th) == CHOOSE m \in th.ids : TRUE

\* the set the ids call writes, from the set it read
IdsAfter(th) ==
    IF th.op = "add" THEN StoreAdd(th.readIds, AddArg(th)) ELSE AddMany(th.readIds, th.ids)

\* the document the records call writes, from the file it read
EmailsAfter(th) ==
    IF th.op = "overwrite_all" THEN [shape |-> "dict", emails |-> th.updates]
    ELSE WithUpdates(th.readEmails, th.updates)

\* ProcessedStore.has: one read of the target file, no lock
HasCall(t, m) ==
    /\ thread[t].pc = "idle"
    /\ thread' = [thread EXCEPT ![t] =
                    [IdleThread EXCEPT !.pc = "done", !.op = "has", !.ids = {m},
                                       !.result = Has(idsFile, m),
                                       !.overlapped = OthersRunning(t)]]
    /\ sh' = Calling
    /\ UNCHANGED <<idsFile, emailsFile, lock>>
    /\ UNCHANGED <<handlerVars, fn>>

\* ProcessedStore.add(m) (S = {m}) or add_many(S) is called
IdsCall(t, op, S) ==
    /\ thread[t].pc = "idle"
    /\ op \in IdsOps
    /\ op = "add" => (Cardinality(S) = 1 /\ S \subseteq MsgIds)
    /\ thread' = [thread EXCEPT ![t] =
                    [IdleThread EXCEPT !.pc = "lock", !.op = op, !.ids = S,
                                       !.overlapped = OthersRunning(t)]]
    /\ sh' = Calling
    /\ UNCHANGED <<idsFile, emailsFile, lock>>
    /\ UNCHANGED <<handlerVars, fn>>

\* "with self._lock: ids = self._read_ids()"; add returns at once when the id
\* is there
IdsLockAndRead(t) ==
    /\ thread[t].pc = "lock"
    /\ thread[t].op \in IdsOps
    /\ IdsLockFree(lock)
    /\ IF thread[t].op = "add" /\ AddArg(thread[t]) \in ReadIds(idsFile)
       THEN /\ thread' = [thread EXCEPT ![t].pc = "done"]
            /\ UNCHANGED lock
       ELSE /\ thread' = [thread EXCEPT ![t].pc = "write", ![t].readIds = idsFile]
            /\ lock' = [lock EXCEPT !.ids = t]
    /\ UNCHANGED <<idsFile, emailsFile, sh>>
    /\ UNCHANGED <<handlerVars, fn>>

\* upsert(item), upsert_many(items) or overwrite_all(items) is called, upd the
\* assignments its record (list) comes to; upsert returns at once on an
\* empty id
RecordsCall(t, op, upd) ==
    /\ thread[t].pc = "idle"
    /\ op \in RecordsOps
    /\ op = "upsert" => Cardinality(DOMAIN upd) <= 1
    /\ thread' = [thread EXCEPT ![t] =
                    [IdleThread EXCEPT
                        !.pc = IF op = "upsert" /\ DOMAIN upd = {}
                               THEN "done" ELSE "lock",
                        !.op = op, !.updates = upd,
                        !.overlapped = OthersRunning(t)]]
    /\ sh' = Calling
    /\ UNCHANGED <<idsFile, emailsFile, lock>>
    /\ UNCHANGED <<handlerVars, fn>>

\* "with self._lock: data = self._read_json()"
RecordsLockAndRead(t) ==
    /\ thread[t].pc = "lock"
    /\ thread[t].op \in RecordsOps
    /\ EmailsLockFree(lock)
    /\ thread' = [thread EXCEPT ![t].pc = "write", ![t].readEmails = emailsFile]
    /\ lock' = [lock EXCEPT !.emails = t]
    /\ UNCHANGED <<idsFile, emailsFile, sh>>
    /\ UNCHANGED <<handlerVars, fn>>

\* the document is written over the target itself: a reader finds the part
\* written so far
EmailsWrittenInPlace(file) == [shape |-> "torn", emails |-> EmptyMap]

\* NamedTemporaryFile(..., dir=tmp_dir, suffix=".tmp") and json.dump: the
\* bytes go to a new file next to the target, the target stays as it is
EmailsAfterTmpWrite(file) == file

\* the same in ProcessedStore._atomic_write
IdsAfterTmpWrite(file) == file

\* _atomic_write: json.dump has begun
TmpWrite(t) ==
    /\ thread[t].pc = "write"
    /\ thread' = [thread EXCEPT ![t].pc = "flush"]
    /\ IF thread[t].op \in IdsOps
       THEN /\ idsFile' = IdsAfterTmpWrite(idsFile)
            /\ UNCHANGED emailsFile
       ELSE /\ emailsFile' = EmailsAfterTmpWrite(emailsFile)
            /\ UNCHANGED idsFile
    /\ UNCHANGED <<lock, sh>>
    /\ UNCHANGED <<handlerVars, fn>>

\* _atomic_write: json.dump has ended, tf.flush() and os.fsync()
TmpFlush(t) ==
    /\ thread[t].pc = "flush"
    /\ thread' = [thread EXCEPT ![t].pc = "replace"]
    /\ UNCHANGED <<idsFile, emailsFile, lock, sh>>
    /\ UNCHANGED <<handlerVars, fn>>

\* _atomic_write: os.replace(tmp_name, self.path); the method returns and the
\* lock is released
Replace(t) ==
    /\ thread[t].pc = "replace"
    /\ thread' = [thread EXCEPT ![t].pc = "done", ![t].readIds = {},
                                ![t].readEmails = NoFile]
    /\ IF thread[t].op \in IdsOps
       THEN /\ idsFile' = IdsAfter(thread[t])
            /\ lock' = [lock EXCEPT !.ids = "free"]
            /\ sh' = [sh EXCEPT !.added = @ \cup {x \in thread[t].ids : x # EmptyId}]
            /\ UNCHANGED emailsFile
       ELSE /\ emailsFile' = EmailsAfter(thread[t])
            /\ lock' = [lock EXCEPT !.emails = "free"]
            /\ UNCHANGED <<idsFile, sh>>
    /\ UNCHANGED <<handlerVars, fn>>

\* the caller has its answer; the overlap noted on the other thread was with
\* this call and ends with it
Forget(t) ==
    /\ thread[t].pc = "done"
    /\ thread' = [u \in Threads |->
                    IF u = t THEN IdleThread
                    ELSE [thread[u] EXCEPT !.overlapped = FALSE]]
    /\ UNCHANGED <<idsFile, emailsFile, lock, sh>>
    /\ UNCHANGED <<handlerVars, fn>>

\* ProcessedStore.save_classified(item), the writer of the list shape, run
\* while no other store method is running
SaveClassified(item) ==
    /\ \A t \in Threads : thread[t].pc = "idle"
    /\ item.id # EmptyId
    /\ emailsFile' = SaveClassifiedFile(emailsFile, item)
    /\ sh' = Calling
    /\ UNCHANGED <<idsFile, thread, lock>>
    /\ UNCHANGED <<handlerVars, fn>>

\* the process dies at any step and is started again: the threads and the
\* locks are gone, the temporary files are left behind, the constructors run
CrashStores ==
    /\ thread' = [t \in Threads |-> IdleThread]
    /\ lock' = [ids |-> "free", emails |-> "free"]
    /\ emailsFile' = Construct(ConstructLegacy(emailsFile))
    /\ sh' = [sh EXCEPT !.crashed = TRUE,
                        !.torn = \E t \in Threads : thread[t].pc = "flush"]
    /\ UNCHANGED idsFile
    /\ UNCHANGED <<handlerVars, fn>>

\* -------------------------------------------------------- model_predict_fn
Raised == [raised |-> TRUE, labels |-> <<>>]

\* raises, or returns labels[:2]
ModelPredictFn(cls, res) ==
    IF cls = "None" THEN Raised
    ELSE IF ~res.success THEN Raised
    ELSE IF Len(Top2Categories(res)) < 2 THEN Raised
    ELSE [raised |-> FALSE, labels |-> Take2(Top2Categories(res))]

\* what predict can answer when it is called through model_predict_fn
PredictReplies(cls) == IF cls = "None" THEN {FailedResult} ELSE PredictResults

\* -------------------------------------------------------------------- Init
Init ==
    /\ idsFile = {}
    /\ emailsFile \in {[shape |-> "dict", emails |-> EmptyMap],
                       [shape |-> "list", emails |-> EmptyMap]}
    /\ cache = <<>>
    /\ classifier \in {"None", "EmailClassifier", "BatchSized"}
    /\ call = [c \in Calls |-> IdleCall]
    /\ h = [c \in Calls |-> NoHistory]
    /\ thread = [t \in Threads |-> IdleThread]
    /\ lock = [ids |-> "free", emails |-> "free"]
    /\ sh = NoStoreHistory
    /\ fn = NoFn

\* the handlers are "async def" without an await: the event loop runs one
\* request to its end before it starts the next
CanStart(c) == \A d \in Calls : call[d].pc = "idle"

\* ------------------------------------------------------ /fetch-and-classify
\* LISTING: list_message_ids(service, max_results=search_limit) returns L
FCStart(c, n, L) ==
    /\ CanStart(c)
    /\ call' = [call EXCEPT ![c] = [IdleCall EXCEPT !.pc = "fc_filter", !.kind = "fc",
                                                   !.max_results = n, !.ids = L]]
    /\ h' = [h EXCEPT ![c] = [NoHistory EXCEPT !.earlier = h[c].earlier]]
    /\ UNCHANGED <<idsFile, emailsFile, cache, classifier>>
    /\ UNCHANGED <<storeVars, fn>>

\* the STORE.has test forgotten: the whole listing counts as new
IdsUnfiltered(L, file) == L

\* ids_new_all = [mid for mid in ids if mid and not STORE.has(mid)]
IdsNewAll(L, file) == SelectSeq(L, LAMBDA mid : ~Has(file, mid))

\* FILTERING
FCFilter(c) ==
    /\ call[c].pc = "fc_filter"
    /\ call' = [call EXCEPT ![c].pc = "fc_fetch",
                            ![c].ids_new = SliceTo(IdsNewAll(call[c].ids, idsFile),
                                                   call[c].max_results),
                            ![c].idx = 1]
    /\ h' = [h EXCEPT ![c].P = ReadIds(idsFile)]
    /\ UNCHANGED <<idsFile, emailsFile, cache, classifier>>
    /\ UNCHANGED <<storeVars, fn>>

\* a failed fetch marks the ID processed, so that it is never tried again
FCFetchOneMarkingFailures(c, ok) ==
    /\ call[c].pc = "fc_fetch"
    /\ call[c].ids_new # <<>>
    /\ LET mid == Head(call[c].ids_new)
       IN  IF ok
           THEN /\ call' = [call EXCEPT ![c].messages_data = Append(@, mid),
                                        ![c].ids_new = Tail(@)]
                /\ h' = [h EXCEPT ![c].attempted = Append(@, mid),
                                  ![c].fetched = Append(@, mid)]
                /\ UNCHANGED idsFile
           ELSE /\ call' = [call EXCEPT ![c].ids_new = Tail(@)]
                /\ idsFile' = StoreAdd(idsFile, mid)
                /\ h' = [h EXCEPT ![c].attempted = Append(@, mid),
                                  ![c].fetchFailed = @ \cup {mid}]
    /\ UNCHANGED <<emailsFile, cache, classifier>>
    /\ UNCHANGED <<storeVars, fn>>

\* FETCHING: one iteration of "for mid in ids_new"
\* (ids_new holds the part of the list the loop has not reached yet)
FCFetchOne(c, ok) ==
    /\ call[c].pc = "fc_fetch"
    /\ call[c].ids_new # <<>>
    /\ LET mid == Head(call[c].ids_new)
       IN  IF ok
           THEN /\ call' = [call EXCEPT ![c].messages_data = Append(@, mid),
                                        ![c].ids_new = Tail(@)]
                /\ h' = [h EXCEPT ![c].attempted = Append(@, mid),
                                  ![c].fetched = Append(@, mid)]
           ELSE /\ call' = [call EXCEPT ![c].ids_new = Tail(@)]
                /\ h' = [h EXCEPT ![c].attempted = Append(@, mid),
                                  ![c].fetchFailed = @ \cup {mid}]
    /\ UNCHANGED <<idsFile, emailsFile, cache, classifier>>
    /\ UNCHANGED <<storeVars, fn>>

\* after the fetch loop: "if not messages_data: return ..."
\* (ids and max_results are not read again and are dropped here)
FCFetchDone(c) ==
    /\ call[c].pc = "fc_fetch"
    /\ call[c].ids_new = <<>>
    /\ call' = [call EXCEPT ![c].pc = IF call[c].messages_data = <<>>
                                     THEN "done" ELSE "fc_batch",
                            ![c].ids = <<>>, ![c].max_results = 0,
                            ![c].idx = 1]
    /\ UNCHANGED <<idsFile, emailsFile, cache, classifier, h>>
    /\ UNCHANGED <<storeVars, fn>>

\* EmailClassifier.predict_batch(self, emails, top_k=2) called with the extra
\* keyword batch_size=3: TypeError, whatever the n emails are
EmailClassifierPredictBatch(n) == {Raised}

\* a classifier whose predict_batch takes batch_size: one result per email,
\* in order, or a failure of the whole call
BatchSizedPredictBatch(n) ==
    {Raised} \cup
    {[raised |-> FALSE, labels |-> rs] :
        rs \in {t \in SeqsUpTo(PredictResults, n) : Len(t) = n}}

\* the try block up to and including
\* simple_main.classifier.predict_batch(emails_for_batch, top_k=2, batch_size=3)
PredictBatchOutcomes(cls, n) ==
    IF cls = "None" THEN {Raised}
    ELSE IF cls = "EmailClassifier" THEN EmailClassifierPredictBatch(n)
    ELSE BatchSizedPredictBatch(n)

\* BATCH_CLASSIFYING: the call of predict_batch inside the try block
FCBatch(c, out) ==
    /\ call[c].pc = "fc_batch"
    /\ out \in PredictBatchOutcomes(classifier, Len(call[c].messages_data))
    /\ LET hist == IF classifier = "None" THEN h[c]
                   ELSE [h[c] EXCEPT !.batched = call[c].messages_data]
       IN  IF out.raised
           THEN /\ call' = [call EXCEPT ![c].pc = "fc_fallback", ![c].idx = 1]
                /\ h' = [h EXCEPT ![c] = hist]
           ELSE /\ call' = [call EXCEPT ![c].pc = "fc_batch_loop", ![c].idx = 1,
                                        ![c].batch_results = out.labels]
                /\ h' = [h EXCEPT ![c] = [hist EXCEPT !.batchReturned = TRUE]]
    /\ UNCHANGED <<idsFile, emailsFile, cache, classifier>>
    /\ UNCHANGED <<storeVars, fn>>

\* the batch loop's decision on one result: skip it, or keep it with cats
BatchItem(result) ==
    IF ~result.success THEN [keep |-> FALSE, cats |-> <<>>]
    ELSE LET cats == Take2(IF Top2Categories(result) # <<>>
                           THEN Top2Categories(result)
                           ELSE result.top_categories)
         IN  IF Len(cats) < 2 THEN [keep |-> FALSE, cats |-> <<>>]
             ELSE [keep |-> TRUE, cats |-> cats]

\* one iteration of "for info, result in zip(messages_data, batch_results)"
\* (batch_results holds the results the loop has not reached yet)
FCBatchItem(c, addOutcome) ==
    /\ call[c].pc = "fc_batch_loop"
    /\ call[c].idx <= Len(call[c].messages_data)
    /\ LET mid  == call[c].messages_data[call[c].idx]
           res  == Head(call[c].batch_results)
           d    == BatchItem(res)
           hist == Classified(h[c], mid, res)
       IN  IF ~d.keep
           THEN /\ addOutcome = "ok"
                /\ call' = [call EXCEPT ![c].idx = @ + 1,
                                        ![c].batch_results = Tail(@)]
                /\ h' = [h EXCEPT ![c] = hist]
                /\ UNCHANGED idsFile
           ELSE /\ addOutcome \in AddOutcomes(idsFile, mid)
                /\ IF addOutcome = "ok"
                   THEN /\ idsFile' = StoreAdd(idsFile, mid)
                        /\ call' = [call EXCEPT ![c].idx = @ + 1,
                                     ![c].batch_results = Tail(@),
                                     ![c].new_results = Append(@, Item(mid, d.cats))]
                        /\ h' = [h EXCEPT ![c] = Marked(hist, idsFile, StoreAdd(idsFile, mid))]
                   ELSE \* STORE.add raised inside the try block: except branch
                        /\ UNCHANGED idsFile
                        /\ call' = [call EXCEPT ![c].pc = "fc_fallback", ![c].idx = 1,
                                     ![c].batch_results = <<>>,
                                     ![c].new_results = Append(@, Item(mid, d.cats))]
                        /\ h' = [h EXCEPT ![c] = hist]
    /\ UNCHANGED <<emailsFile, cache, classifier>>
    /\ UNCHANGED <<storeVars, fn>>

\* the batch loop is exhausted
FCBatchDone(c) ==
    /\ call[c].pc = "fc_batch_loop"
    /\ call[c].idx > Len(call[c].messages_data)
    /\ call' = [call EXCEPT ![c].pc = "fc_persist", ![c].messages_data = <<>>,
                            ![c].idx = 1]
    /\ UNCHANGED <<idsFile, emailsFile, cache, classifier, h>>
    /\ UNCHANGED <<storeVars, fn>>

\* a failed prediction answered with default labels instead of being skipped
SingleItemDefaulting(cls, res) ==
    LET r == ModelPredictFn(cls, res)
    IN  IF r.raised THEN [keep |-> TRUE, cats |-> <<"General", "Information">>]
        ELSE IF Len(r.labels) # 2 THEN [keep |-> FALSE, cats |-> <<>>]
        ELSE [keep |-> TRUE, cats |-> r.labels]

\* the fallback loop's decision on one message: skip it, or keep it with cats
SingleItem(cls, res) ==
    LET r == ModelPredictFn(cls, res)
    IN  IF r.raised THEN [keep |-> FALSE, cats |-> <<>>]
        ELSE IF Len(r.labels) # 2 THEN [keep |-> FALSE, cats |-> <<>>]
        ELSE [keep |-> TRUE, cats |-> r.labels]

\* FALLBACK_SINGLE: one iteration of "for info in messages_data"
FCFallbackItem(c, res, addOutcome) ==
    /\ call[c].pc = "fc_fallback"
    /\ call[c].idx <= Len(call[c].messages_data)
    /\ res \in PredictReplies(classifier)
    /\ LET mid  == call[c].messages_data[call[c].idx]
           d    == SingleItem(classifier, res)
           hist == Classified([h[c] EXCEPT !.single = Append(@, mid)], mid, res)
       IN  IF ~d.keep
           THEN /\ addOutcome = "ok"
                /\ call' = [call EXCEPT ![c].idx = @ + 1]
                /\ h' = [h EXCEPT ![c] = hist]
                /\ UNCHANGED idsFile
           ELSE /\ addOutcome \in AddOutcomes(idsFile, mid)
                /\ call' = [call EXCEPT ![c].idx = @ + 1,
                             ![c].new_results = Append(@, Item(mid, d.cats))]
                /\ IF addOutcome = "ok"
                   THEN /\ idsFile' = StoreAdd(idsFile, mid)
                        /\ h' = [h EXCEPT ![c] = Marked(hist, idsFile, StoreAdd(idsFile, mid))]
                   ELSE \* STORE.add raised: "except Exception as e2: continue"
                        /\ UNCHANGED idsFile
                        /\ h' = [h EXCEPT ![c] = hist]
    /\ UNCHANGED <<emailsFile, cache, classifier>>
    /\ UNCHANGED <<storeVars, fn>>

\* the fallback loop is exhausted
FCFallbackDone(c) ==
    /\ call[c].pc = "fc_fallback"
    /\ call[c].idx > Len(call[c].messages_data)
    /\ call' = [call EXCEPT ![c].pc = "fc_persist", ![c].messages_data = <<>>,
                            ![c].idx = 1]
    /\ UNCHANGED <<idsFile, emailsFile, cache, classifier, h>>
    /\ UNCHANGED <<storeVars, fn>>

ItemIds(items) == {items[k].id : k \in 1..Len(items)}

\* a call that has nothing to store ends with an error
FCPersistFailingOnEmpty(c, outcome) ==
    /\ call[c].pc = "fc_persist"
    /\ IF call[c].new_results = <<>>
       THEN /\ outcome = "ok"
            /\ call' = [call EXCEPT ![c].pc = "error"]
            /\ UNCHANGED <<emailsFile, cache, h>>
       ELSE IF outcome = "ok"
       THEN /\ emailsFile' = UpsertMany(emailsFile, call[c].new_results)
            /\ cache' = MergeCache(cache, call[c].new_results)
            /\ call' = [call EXCEPT ![c].pc = "done"]
            /\ h' = [h EXCEPT ![c].wrote = @ \cup ItemIds(call[c].new_results)]
       ELSE /\ call' = [call EXCEPT ![c].pc = "error", ![c].new_results = <<>>]
            /\ h' = [h EXCEPT ![c].recordWriteFailed = TRUE]
            /\ UNCHANGED <<emailsFile, cache>>
    /\ UNCHANGED <<idsFile, classifier>>
    /\ UNCHANGED <<storeVars, fn>>

\* PERSISTING: "if new_results: EMAILS_STORE.upsert_many(...); merge the cache"
FCPersist(c, outcome) ==
    /\ call[c].pc = "fc_persist"
    /\ IF call[c].new_results = <<>>
       THEN /\ outcome = "ok"
            /\ call' = [call EXCEPT ![c].pc = "done"]
            /\ UNCHANGED <<emailsFile, cache, h>>
       ELSE IF outcome = "ok"
       THEN /\ emailsFile' = UpsertMany(emailsFile, call[c].new_results)
            /\ cache' = MergeCache(cache, call[c].new_results)
            /\ call' = [call EXCEPT ![c].pc = "done"]
            /\ h' = [h EXCEPT ![c].wrote = @ \cup ItemIds(call[c].new_results)]
       ELSE \* the store write raised: the handler ends with an error
            /\ call' = [call EXCEPT ![c].pc = "error", ![c].new_results = <<>>]
            /\ h' = [h EXCEPT ![c].recordWriteFailed = TRUE]
            /\ UNCHANGED <<emailsFile, cache>>
    /\ UNCHANGED <<idsFile, classifier>>
    /\ UNCHANGED <<storeVars, fn>>

\* ------------------------------- /emails and /fetch-emails (gmail_helpers)
\* the handler calls fetch_and_parse_new_emails, which lists first:
\* get_service and gmail_helpers.list_message_ids are not guarded, so a
\* listing failure ends the call with an error
HStart(c, k, L, listOk) ==
    /\ CanStart(c)
    /\ k \in {"emails", "fetch_emails"}
    /\ call' = [call EXCEPT ![c] =
                  [IdleCall EXCEPT !.pc = IF listOk THEN "h_loop" ELSE "error",
                                   !.kind = k,
                                   !.ids = IF listOk THEN L ELSE <<>>]]
    /\ h' = [h EXCEPT ![c] = NoHistory]
    /\ UNCHANGED <<idsFile, emailsFile, cache, classifier>>
    /\ UNCHANGED <<storeVars, fn>>

\* "if not mid or _already_processed(mid): continue"
HSkip(c) ==
    /\ call[c].pc = "h_loop"
    /\ call[c].ids # <<>>
    /\ Has(idsFile, Head(call[c].ids))
    /\ call' = [call EXCEPT ![c].ids = Tail(@)]
    /\ UNCHANGED <<idsFile, emailsFile, cache, classifier, h>>
    /\ UNCHANGED <<storeVars, fn>>

\* "info = get_message(service, mid)" raises: nothing in the loop catches it
HFetchFail(c) ==
    /\ call[c].pc = "h_loop"
    /\ call[c].ids # <<>>
    /\ ~Has(idsFile, Head(call[c].ids))
    /\ call' = [call EXCEPT ![c].pc = "error", ![c].ids = <<>>]
    /\ h' = [h EXCEPT ![c].attempted = Append(@, Head(call[c].ids)),
                      ![c].fetchFailed = @ \cup {Head(call[c].ids)}]
    /\ UNCHANGED <<idsFile, emailsFile, cache, classifier>>
    /\ UNCHANGED <<storeVars, fn>>

\* the helper loop's decision on one message: skip it, or keep it with cats
HelperItem(cls, res) ==
    LET r    == ModelPredictFn(cls, res)
        cats == Take2(r.labels)
    IN  IF r.raised THEN [keep |-> FALSE, cats |-> <<>>]
        ELSE IF Len(cats) < 2 THEN [keep |-> FALSE, cats |-> <<>>]
        ELSE [keep |-> TRUE, cats |-> cats]

\* the message is fetched, classified, appended and marked
\* (ids holds the part of the listing the loop has not reached yet)
HClassify(c, res, addOutcome) ==
    /\ call[c].pc = "h_loop"
    /\ call[c].ids # <<>>
    /\ ~Has(idsFile, Head(call[c].ids))
    /\ res \in PredictReplies(classifier)
    /\ LET mid  == Head(call[c].ids)
           d    == HelperItem(classifier, res)
           hist == Classified([h[c] EXCEPT !.attempted = Append(@, mid),
                                           !.fetched = Append(@, mid),
                                           !.single = Append(@, mid)], mid, res)
       IN  IF ~d.keep
           THEN /\ addOutcome = "ok"
                /\ call' = [call EXCEPT ![c].ids = Tail(@)]
                /\ h' = [h EXCEPT ![c] = hist]
                /\ UNCHANGED idsFile
           ELSE /\ addOutcome \in AddOutcomes(idsFile, mid)
                /\ IF addOutcome = "ok"
                   THEN /\ idsFile' = StoreAdd(idsFile, mid)
                        /\ call' = [call EXCEPT ![c].ids = Tail(@),
                                     ![c].new_results = Append(@, Item(mid, d.cats))]
                        /\ h' = [h EXCEPT ![c] = Marked(hist, idsFile, StoreAdd(idsFile, mid))]
                   ELSE \* _StoreAdapter.add raised; the fallback
                        \* "processed_store[mid] = True" raises TypeError on a set
                        /\ UNCHANGED idsFile
                        /\ call' = [call EXCEPT ![c].pc = "error", ![c].ids = <<>>,
                                     ![c].new_results = <<>>]
                        /\ h' = [h EXCEPT ![c] = hist]
    /\ UNCHANGED <<emailsFile, cache, classifier>>
    /\ UNCHANGED <<storeVars, fn>>

\* fetch_and_parse_new_emails returns its list
HLoopDone(c) ==
    /\ call[c].pc = "h_loop"
    /\ call[c].ids = <<>>
    /\ call' = [call EXCEPT ![c].pc = "h_persist"]
    /\ UNCHANGED <<idsFile, emailsFile, cache, classifier, h>>
    /\ UNCHANGED <<storeVars, fn>>

\* "if items: merge into PROCESSED_ITEMS; EMAILS_STORE.upsert_many(items)"
HPersist(c, outcome) ==
    /\ call[c].pc = "h_persist"
    /\ IF call[c].new_results = <<>>
       THEN /\ outcome = "ok"
            /\ call' = [call EXCEPT ![c].pc = "done"]
            /\ UNCHANGED <<emailsFile, cache, h>>
       ELSE /\ cache' = MergeCache(cache, call[c].new_results)
            /\ IF outcome = "ok"
               THEN /\ emailsFile' = UpsertMany(emailsFile, call[c].new_results)
                    /\ call' = [call EXCEPT ![c].pc = "done"]
                    /\ h' = [h EXCEPT ![c].wrote = @ \cup ItemIds(call[c].new_results)]
               ELSE /\ call' = [call EXCEPT ![c].pc = "error", ![c].new_results = <<>>]
                    /\ h' = [h EXCEPT ![c].recordWriteFailed = TRUE]
                    /\ UNCHANGED emailsFile
    /\ UNCHANGED <<idsFile, classifier>>
    /\ UNCHANGED <<storeVars, fn>>

\* ------------------------------------------------- /reclassify/{message_id}
\* get_message_plain and model_predict_fn; any failure is a 500
RStart(c, mid, fetchOk, res) ==
    /\ CanStart(c)
    /\ res \in PredictReplies(classifier)
    /\ LET d == SingleItem(classifier, res)
           fetchedHist == Classified([NoHistory EXCEPT !.attempted = <<mid>>,
                                                       !.fetched = <<mid>>,
                                                       !.single = <<mid>>], mid, res)
       IN  IF ~fetchOk
           THEN /\ res = FailedResult
                /\ call' = [call EXCEPT ![c] =
                             [IdleCall EXCEPT !.pc = "error", !.kind = "reclassify"]]
                /\ h' = [h EXCEPT ![c] = [NoHistory EXCEPT !.attempted = <<mid>>,
                                                           !.fetchFailed = {mid}]]
           ELSE IF ~d.keep
           THEN /\ call' = [call EXCEPT ![c] =
                             [IdleCall EXCEPT !.pc = "error", !.kind = "reclassify"]]
                /\ h' = [h EXCEPT ![c] = fetchedHist]
           ELSE /\ call' = [call EXCEPT ![c] =
                             [IdleCall EXCEPT !.pc = "r_upsert", !.kind = "reclassify",
                                              !.ids = <<mid>>,
                                              !.new_results = <<Item(mid, d.cats)>>]]
                /\ h' = [h EXCEPT ![c] = fetchedHist]
    /\ UNCHANGED <<idsFile, emailsFile, cache, classifier>>
    /\ UNCHANGED <<storeVars, fn>>

\* "EMAILS_STORE.upsert_many([item])", then the cache: append if the id is new
RUpsert(c, outcome) ==
    /\ call[c].pc = "r_upsert"
    /\ IF outcome = "ok"
       THEN /\ emailsFile' = UpsertMany(emailsFile, call[c].new_results)
            /\ cache' = MergeCache(cache, call[c].new_results)
            /\ call' = [call EXCEPT ![c].pc = "r_mark"]
            /\ h' = [h EXCEPT ![c].wrote = @ \cup ItemIds(call[c].new_results)]
       ELSE /\ call' = [call EXCEPT ![c].pc = "error", ![c].ids = <<>>,
                                    ![c].new_results = <<>>]
            /\ h' = [h EXCEPT ![c].recordWriteFailed = TRUE]
            /\ UNCHANGED <<emailsFile, cache>>
    /\ UNCHANGED <<idsFile, classifier>>
    /\ UNCHANGED <<storeVars, fn>>

\* "STORE.add(message_id)"
RMark(c, addOutcome) ==
    /\ call[c].pc = "r_mark"
    /\ LET mid == call[c].ids[1]
       IN  /\ addOutcome \in AddOutcomes(idsFile, mid)
           /\ IF addOutcome = "ok"
              THEN /\ idsFile' = StoreAdd(idsFile, mid)
                   /\ call' = [call EXCEPT ![c].pc = "done", ![c].ids = <<>>]
                   /\ h' = [h EXCEPT ![c] = Marked(h[c], idsFile, StoreAdd(idsFile, mid))]
              ELSE /\ call' = [call EXCEPT ![c].pc = "error", ![c].ids = <<>>,
                                           ![c].new_results = <<>>]
                   /\ UNCHANGED <<idsFile, h>>
    /\ UNCHANGED <<emailsFile, cache, classifier>>
    /\ UNCHANGED <<storeVars, fn>>

\* the response of a finished /fetch-and-classify call
Response(c) ==
    [new_count |-> Len(call[c].new_results), processed |-> call[c].new_results]

\* the response (or the error) is delivered; the call's locals are gone
Return(c) ==
    /\ call[c].pc \in {"done", "error"}
    /\ call' = [call EXCEPT ![c] = IdleCall]
    /\ h' = [h EXCEPT ![c] = NoHistory]
    /\ UNCHANGED <<idsFile, emailsFile, cache, classifier>>
    /\ UNCHANGED <<storeVars, fn>>

\* the server process dies and is started again: memory is lost, the two
\* files stay, and the store constructors leave existing files alone
Crash ==
    /\ \/ \E c \in Calls : call[c] # IdleCall
       \/ cache # <<>>
    /\ call' = [c \in Calls |-> IdleCall]
    /\ h' = [c \in Calls |-> NoHistory]
    /\ cache' = <<>>
    /\ UNCHANGED <<idsFile, emailsFile, classifier>>
    /\ UNCHANGED <<storeVars, fn>>

MaxResultsInputs == (-1)..MaxReq
Listings == SeqsUpTo(MsgIds, MaxList)
WriteOutcomes == {"ok", "raise"}

Next ==
    \/ \E c \in Calls, n \in MaxResultsInputs, L \in Listings : FCStart(c, n, L)
    \/ \E c \in Calls : FCFilter(c)
    \/ \E c \in Calls, ok \in BOOLEAN : FCFetchOne(c, ok)
    \/ \E c \in Calls : FCFetchDone(c)
    \/ \E c \in Calls : \E out \in PredictBatchOutcomes(classifier, Len(call[c].messages_data)) : FCBatch(c, out)
    \/ \E c \in Calls, o \in WriteOutcomes : FCBatchItem(c, o)
    \/ \E c \in Calls : FCBatchDone(c)
    \/ \E c \in Calls, res \in PredictResults, o \in WriteOutcomes : FCFallbackItem(c, res, o)
    \/ \E c \in Calls : FCFallbackDone(c)
    \/ \E c \in Calls, o \in WriteOutcomes : FCPersist(c, o)
    \/ \E c \in Calls, k \in {"emails", "fetch_emails"}, L \in Listings, ok \in BOOLEAN : HStart(c, k, L, ok)
    \/ \E c \in Calls : HSkip(c)
    \/ \E c \in Calls : HFetchFail(c)
    \/ \E c \in Calls, res \in PredictResults, o \in WriteOutcomes : HClassify(c, res, o)
    \/ \E c \in Calls : HLoopDone(c)
    \/ \E c \in Calls, o \in WriteOutcomes : HPersist(c, o)
    \/ \E c \in Calls, mid \in MsgIds, ok \in BOOLEAN, res \in PredictResults : RStart(c, mid, ok, res)
    \/ \E c \in Calls, o \in WriteOutcomes : RUpsert(c, o)
    \/ \E c \in Calls, o \in WriteOutcomes : RMark(c, o)
    \/ \E c \in Calls : Return(c)
    \/ Crash

Spec == Init /\ [][Next]_vars

\* ------------------------------ one /fetch-and-classify call after another
\* the response (or the error) of /fetch-and-classify is delivered; what the
\* call classified is kept for the history of the next call
FCReturn(c) ==
    /\ call[c].kind = "fc"
    /\ call[c].pc \in {"done", "error"}
    /\ call' = [call EXCEPT ![c] = IdleCall]
    /\ h' = [h EXCEPT ![c] = [NoHistory EXCEPT !.earlier = h[c].good \ h[c].P]]
    /\ UNCHANGED <<idsFile, emailsFile, cache, classifier>>
    /\ UNCHANGED <<storeVars, fn>>

NextFC ==
    \/ \E c \in Calls, n \in MaxResultsInputs, L \in Listings : FCStart(c, n, L)
    \/ \E c \in Calls : FCFilter(c)
    \/ \E c \in Calls, ok \in BOOLEAN : FCFetchOne(c, ok)
    \/ \E c \in Calls : FCFetchDone(c)
    \/ \E c \in Calls : \E out \in PredictBatchOutcomes(classifier, Len(call[c].messages_data)) : FCBatch(c, out)
    \/ \E c \in Calls, o \in WriteOutcomes : FCBatchItem(c, o)
    \/ \E c \in Calls : FCBatchDone(c)
    \/ \E c \in Calls, res \in PredictResults, o \in WriteOutcomes : FCFallbackItem(c, res, o)
    \/ \E c \in Calls : FCFallbackDone(c)
    \/ \E c \in Calls, o \in WriteOutcomes : FCPersist(c, o)
    \/ \E c \in Calls : FCReturn(c)

SpecFC == Init /\ [][NextFC]_vars

\* ------------------- /fetch-and-classify called again and again for Wanted
\* the message whose processing is awaited
Wanted == MaxMsgs

\* a classifier is loaded
InitWanted == Init /\ classifier # "None"

\* what predict_batch can answer when every result for Wanted is good
WantedBatchOutcomes(c) ==
    {out \in PredictBatchOutcomes(classifier, Len(call[c].messages_data)) :
        out.raised \/ \A k \in 1..Len(call[c].messages_data) :
                          call[c].messages_data[k] = Wanted => GoodResult(out.labels[k])}

\* /fetch-and-classify is called again and again with max_results >= 1, the
\* listing always holds Wanted, every fetch of Wanted succeeds, every
\* classification of Wanted gives at least two labels, and no store write
\* fails; the other messages fail or succeed as they like
NextWanted ==
    \/ \E c \in Calls, n \in 1..MaxReq, L \in Listings :
          Wanted \in Range(L) /\ FCStart(c, n, L)
    \/ \E c \in Calls : FCFilter(c)
    \/ \E c \in Calls, ok \in BOOLEAN :
          /\ call[c].ids_new # <<>> /\ Head(call[c].ids_new) = Wanted => ok
          /\ FCFetchOne(c, ok)
    \/ \E c \in Calls : FCFetchDone(c)
    \/ \E c \in Calls : \E out \in WantedBatchOutcomes(c) : FCBatch(c, out)
    \/ \E c \in Calls : FCBatchItem(c, "ok")
    \/ \E c \in Calls : FCBatchDone(c)
    \/ \E c \in Calls, res \in PredictResults :
          /\ (/\ call[c].idx <= Len(call[c].messages_data)
              /\ call[c].messages_data[call[c].idx] = Wanted) => GoodResult(res)
          /\ FCFallbackItem(c, res, "ok")
    \/ \E c \in Calls : FCFallbackDone(c)
    \/ \E c \in Calls : FCPersist(c, "ok")
    \/ \E c \in Calls : Return(c)

\* the server keeps running and the client keeps calling
SpecWanted == InitWanted /\ [][NextWanted]_vars /\ WF_vars(NextWanted)

\* -------------------------------------------------------- /clear-user-data
\* the file stays where it is
RemovedNot(file) == file

\* "if emails_path.exists(): os.remove(emails_path)"
Removed(file) == NoFile

ClearOutcomes == {"ok", "ids_remove_raises", "emails_remove_raises"}

\* simple_main.clear_user_data, from its first line to its return (it has no
\* await): PROCESSED_ITEMS.clear(), both files removed, both stores built
\* again. ProcessedStore is built first, with its default emails_path, which
\* is the record file when the server runs in the directory of the files
\* (sameDir). An os.remove that raises ends the call with the 500 answer,
\* what was done before it staying done; a processed-ID file that is gone
\* reads as the empty set. h keeps what the stores held when the call began.
ClearUserData(c, outcome, sameDir) ==
    /\ CanStart(c)
    /\ cache' = <<>>
    /\ h' = [h EXCEPT ![c] = [NoHistory EXCEPT !.P = ReadIds(idsFile),
                                              !.earlier = StoredIds(emailsFile)]]
    /\ IF outcome = "ok"
       THEN /\ idsFile' = {}
            /\ emailsFile' = IF sameDir
                             THEN Construct(ConstructLegacy(Removed(emailsFile)))
                             ELSE Construct(Removed(emailsFile))
            /\ call' = [call EXCEPT ![c] = [IdleCall EXCEPT !.pc = "done",
                                                           !.kind = "clear"]]
       ELSE /\ idsFile' = IF outcome = "ids_remove_raises" THEN idsFile ELSE {}
            /\ UNCHANGED emailsFile
            /\ call' = [call EXCEPT ![c] = [IdleCall EXCEPT !.pc = "error",
                                                           !.kind = "clear"]]
    /\ UNCHANGED classifier
    /\ UNCHANGED <<storeVars, fn>>

\* every handler of main.py, and /clear-user-data
NextClear ==
    \/ Next
    \/ \E c \in Calls, o \in ClearOutcomes, sameDir \in BOOLEAN : ClearUserData(c, o, sameDir)

SpecClear == Init /\ [][NextClear]_vars

\* --------------------------------------------- the stores under their callers
\* the files as the constructors leave them (main.py:41-45: ProcessedStore
\* first, whose default emails_path can be the same file), no handler running
InitStores ==
    /\ idsFile = {}
    /\ emailsFile \in {Construct(NoFile), Construct(ConstructLegacy(NoFile))}
    /\ cache = <<>>
    /\ classifier = "None"
    /\ call = [c \in Calls |-> IdleCall]
    /\ h = [c \in Calls |-> NoHistory]
    /\ thread = [t \in Threads |-> IdleThread]
    /\ lock = [ids |-> "free", emails |-> "free"]
    /\ sh = NoStoreHistory
    /\ fn = NoFn

\* two threads on one ProcessedStore
NextIds ==
    \/ \E t \in Threads, m \in MsgIds : HasCall(t, m)
    \/ \E t \in Threads, op \in IdsOps, S \in IdSets : IdsCall(t, op, S)
    \/ \E t \in Threads : IdsLockAndRead(t)
    \/ \E t \in Threads : TmpWrite(t)
    \/ \E t \in Threads : TmpFlush(t)
    \/ \E t \in Threads : Replace(t)
    \/ \E t \in Threads : Forget(t)
    \/ CrashStores

SpecIds == InitStores /\ [][NextIds]_vars

\* two threads upserting into one ProcessedEmailsStore
NextRecords ==
    \/ \E t \in Threads, op \in UpsertOps, upd \in UpdateSets : RecordsCall(t, op, upd)
    \/ \E t \in Threads : RecordsLockAndRead(t)
    \/ \E t \in Threads : TmpWrite(t)
    \/ \E t \in Threads : TmpFlush(t)
    \/ \E t \in Threads : Replace(t)
    \/ \E t \in Threads : Forget(t)
    \/ CrashStores

SpecRecords == InitStores /\ [][NextRecords]_vars

\* one thread on both stores
NextStores ==
    \/ \E t \in {"t1"}, op \in IdsOps, S \in IdSets : IdsCall(t, op, S)
    \/ \E t \in {"t1"} : IdsLockAndRead(t)
    \/ \E t \in {"t1"}, op \in RecordsOps, upd \in UpdateSets : RecordsCall(t, op, upd)
    \/ \E t \in {"t1"} : RecordsLockAndRead(t)
    \/ \E t \in {"t1"} : TmpWrite(t)
    \/ \E t \in {"t1"} : TmpFlush(t)
    \/ \E t \in {"t1"} : Replace(t)
    \/ \E t \in {"t1"} : Forget(t)
    \/ \E item \in Records : SaveClassified(item)
    \/ CrashStores

SpecStores == InitStores /\ [][NextStores]_vars

\* ------------------------------------------------------- list_message_ids
MaxPages == 3       \* most pages a listing tried here needs

\* "batch_size = min(remaining, 100)"
PageCap == 100

\* the max_results tried: around every multiple of the page size
ResultSizes ==
    {n \in {1, 2} \cup {k * PageCap + d : k \in 0..(MaxPages - 1), d \in {-1, 0, 1}} :
        n >= 1}

\* the integers a..b in order
Run(a, b) == [i \in 1..(b - a + 1) |-> a + i - 1]

\* What req.execute() can answer a request for b messages, the provider
\* having handed out the ids 1..(next - 1) so far: it raises, or returns
\*   empty   no "messages"
\*   full    b ids not handed out before
\*   short   one such id
\*   noid    b entries, the first without an "id"
\*   repeat  b ids beginning with the last one of the page before (the
\*           mailbox changed between the two requests)
\* each with or without a nextPageToken (page MaxPages is the provider's last)
PageKinds(b, next) ==
    {"empty", "full", "short", "noid"} \cup (IF next > 1 THEN {"repeat"} ELSE {})

\* [m.get("id") for m in messages if m.get("id")]
PageIds(kind, b, next) ==
    CASE kind = "empty"  -> <<>>
      [] kind = "full"   -> Run(next, next + b - 1)
      [] kind = "short"  -> <<next>>
      [] kind = "noid"   -> Run(next, next + b - 2)
      [] kind = "noids"  -> <<>>
      [] kind = "repeat" -> Run(next - 1, next + b - 2)

\* the entries of the page, with or without id
PageLen(kind, b) ==
    CASE kind = "empty" -> 0
      [] kind = "short" -> 1
      [] OTHER          -> b

\*   pc          loop (at "while remaining > 0"), return (at "return
\*               ids[:max_results]"), done
\*   asked       the maxResults of the page requests so far (observation only)
\*   failedAfter the number of pages read when a request raised, -1 when none
\*               did (observation only)
ListLocals(n) ==
    [op |-> "list", pc |-> "loop", max_results |-> n, ids |-> <<>>,
     page_token |-> FALSE, remaining |-> Max(1, n), next |-> 1,
     asked |-> <<>>, lastToken |-> FALSE, failedAfter |-> -1,
     raised |-> FALSE, result |-> <<>>]

\* list_message_ids(service, max_results=n) is called: lines 162-165
ListCall(n) ==
    /\ fn = NoFn
    /\ fn' = ListLocals(n)
    /\ UNCHANGED <<idsFile, emailsFile, handlerVars, storeVars>>

\* remaining keeps its first value
RemainingKept(loc, ids) == loc.remaining

\* "remaining = max_results - len(ids)"
RemainingAfter(loc, ids) == loc.max_results - Len(ids)

\* the exception of a page request leaves the function
PageFailureRaised(loc) == [loc EXCEPT !.pc = "done", !.raised = TRUE]

\* "except Exception: logger.exception(...)", then the return statement
PageFailureCaught(loc) == [loc EXCEPT !.pc = "return"]

\* one turn of the while loop with the page request answered by kind / token,
\* or raising
ListPage(kind, token, raises) ==
    /\ fn.op = "list" /\ fn.pc = "loop"
    /\ LET batch_size == Min(fn.remaining, PageCap)
           req == [fn EXCEPT !.asked = Append(@, batch_size)]
       IN  IF fn.remaining <= 0
           THEN /\ kind = "empty" /\ ~token /\ ~raises
                /\ fn' = [fn EXCEPT !.pc = "return"]
           ELSE IF raises
           THEN /\ kind = "empty" /\ ~token
                /\ fn' = PageFailureCaught([req EXCEPT !.failedAfter = Len(fn.asked)])
           ELSE /\ kind \in PageKinds(batch_size, fn.next)
                /\ token => Len(req.asked) < MaxPages
                /\ LET ids  == fn.ids \o PageIds(kind, batch_size, fn.next)
                       got  == [req EXCEPT !.ids = ids, !.lastToken = token,
                                           !.next = IF kind = "repeat"
                                                    THEN fn.next + batch_size - 1
                                                    ELSE fn.next + PageLen(kind, batch_size)]
                   IN  IF PageLen(kind, batch_size) = 0
                       THEN /\ ~token
                            /\ fn' = [req EXCEPT !.pc = "return"]
                       ELSE IF Len(ids) >= fn.max_results
                       THEN fn' = [got EXCEPT !.pc = "return"]
                       ELSE IF ~token
                       THEN fn' = [got EXCEPT !.pc = "return", !.page_token = FALSE]
                       ELSE fn' = [got EXCEPT !.page_token = TRUE,
                                              !.remaining = RemainingAfter(got, ids)]
    /\ UNCHANGED <<idsFile, emailsFile, handlerVars, storeVars>>

\* "return ids[:max_results]"
ListReturn ==
    /\ fn.op = "list" /\ fn.pc = "return"
    /\ fn' = [fn EXCEPT !.pc = "done", !.result = SliceTo(fn.ids, fn.max_results)]
    /\ UNCHANGED <<idsFile, emailsFile, handlerVars, storeVars>>

NextList ==
    \/ \E n \in ResultSizes : ListCall(n)
    \/ \E kind \in {"empty", "full", "short", "noid", "repeat"}, token \in BOOLEAN,
          raises \in BOOLEAN : ListPage(kind, token, raises)
    \/ ListReturn

SpecList == InitStores /\ [][NextList]_vars

\* ------------------------------- list_message_ids, page request by request
MaxWanted == 3      \* largest max_results tried here

\* no page request is waiting for its answer
NoResp == [kind |-> "none", token |-> FALSE]

\* "remaining = max(1, int(max_results or 100))"
FirstRemaining(n) == IF n = 0 THEN Max(1, 100) ELSE Max(1, n)

\*   pc    request (req.execute() is running), turn (it has returned resp),
\*         return (at "return ids[:max_results]"), done
PagingLocals(n) ==
    [op |-> "paging", pc |-> "request", max_results |-> n, ids |-> <<>>,
     page_token |-> FALSE, remaining |-> FirstRemaining(n), resp |-> NoResp,
     result |-> <<>>]

\* list_message_ids(service, max_results=n) is called and, remaining being
\* positive, sends its first page request
PagingCall(n) ==
    /\ fn = NoFn
    /\ fn' = PagingLocals(n)
    /\ UNCHANGED <<idsFile, emailsFile, handlerVars, storeVars>>

\* req.execute() returns a page: any of the pages of PageKinds, or "noids", a
\* page none of whose entries has an "id"; with or without a nextPageToken
PageReturns(kind, token) ==
    /\ fn.op = "paging" /\ fn.pc = "request"
    /\ kind \in PageKinds(Min(fn.remaining, PageCap), Len(fn.ids) + 1) \cup {"noids"}
    /\ fn' = [fn EXCEPT !.pc = "turn", !.resp = [kind |-> kind, token |-> token]]
    /\ UNCHANGED <<idsFile, emailsFile, handlerVars, storeVars>>

\* "if len(ids) >= max_results: break"
LoopTurnSatisfied(loc, ids) == Len(ids) >= loc.max_results

\* the rest of the loop body after the page has come back, up to the next
\* page request ("while remaining > 0" holds then: len(ids) < max_results)
LoopTurn ==
    /\ fn.op = "paging" /\ fn.pc = "turn"
    /\ LET batch_size == Min(fn.remaining, PageCap)
           ids == fn.ids \o PageIds(fn.resp.kind, batch_size, Len(fn.ids) + 1)
           got == [fn EXCEPT !.ids = ids, !.resp = NoResp]
       IN  IF PageLen(fn.resp.kind, batch_size) = 0
           THEN fn' = [fn EXCEPT !.pc = "return", !.resp = NoResp]
           ELSE IF LoopTurnSatisfied(fn, ids)
           THEN fn' = [got EXCEPT !.pc = "return"]
           ELSE IF ~fn.resp.token
           THEN fn' = [got EXCEPT !.pc = "return", !.page_token = FALSE]
           ELSE fn' = [got EXCEPT !.pc = "request", !.page_token = TRUE,
                                  !.remaining = fn.max_results - Len(ids)]
    /\ UNCHANGED <<idsFile, emailsFile, handlerVars, storeVars>>

\* "return ids[:max_results]"
PagingReturn ==
    /\ fn.op = "paging" /\ fn.pc = "return"
    /\ fn' = [fn EXCEPT !.pc = "done", !.result = SliceTo(fn.ids, fn.max_results)]
    /\ UNCHANGED <<idsFile, emailsFile, handlerVars, storeVars>>

NextPaging ==
    \/ \E n \in (-1)..MaxWanted : PagingCall(n)
    \/ \E kind \in {"empty", "full", "short", "noid", "repeat", "noids"},
          token \in BOOLEAN : PageReturns(kind, token)
    \/ LoopTurn
    \/ PagingReturn

\* every page request returns, and the function runs on when it can
SpecPaging ==
    /\ InitStores /\ [][NextPaging]_vars
    /\ WF_vars(\E kind \in {"empty", "full", "short", "noid", "repeat", "noids"},
                  token \in BOOLEAN : PageReturns(kind, token))
    /\ WF_vars(LoopTurn)
    /\ WF_vars(PagingReturn)

\* ------------------------------------------- the listing window of the handler
MaxRequested == 60  \* the max_results query parameters tried: -MaxRequested..MaxRequested

\* the window grows with the batch size without an upper end
SearchLimitUncapped(n) == Max(50, n * 10)

\* "search_limit = min(500, max(50, int(max_results) * 10))"
SearchLimit(n) == Min(500, Max(50, n * 10))

\* /fetch-and-classify?max_results=n reaches
\* "ids = list_message_ids(service, user_id="me", q=q, max_results=search_limit)":
\* list_max_results is the max_results list_message_ids is called with
FCListing(n) ==
    /\ fn = NoFn
    /\ fn' = [op |-> "listing", requested |-> n, list_max_results |-> SearchLimit(n)]
    /\ UNCHANGED <<idsFile, emailsFile, handlerVars, storeVars>>

NextListing == \E n \in (-MaxRequested)..MaxRequested : FCListing(n)

SpecListing == InitStores /\ [][NextListing]_vars

\* ------------------------------------------------- EmailClassifier.predict
MaxLabels == 3      \* labels of the model: 1..MaxLabels
MaxConf == 2        \* confidence levels of a label: 0..MaxConf

Labels == 1..MaxLabels

\* self.reverse_mapping: index -> category name
ReverseMapping == [i \in Labels |-> <<"label", i>>]

\* torch.sigmoid(logits).squeeze().cpu().numpy(), one level per label
Probabilities == [Labels -> 0..MaxConf]

\* np.argsort(probabilities): the indices in an order of non-decreasing
\* probability (which one, among equal probabilities, is numpy's choice)
ArgSorts(prob) ==
    {f \in [Labels -> Labels] :
        /\ \A i \in Labels : \A j \in Labels : (i # j) => (f[i] # f[j])
        /\ \A i \in Labels : \A j \in Labels :
              (i < j) => (prob[f[i]] <= prob[f[j]])}

\* python s[::-1]
Reversed(s) == [i \in 1..Len(s) |-> s[Len(s) + 1 - i]]

\* where predict can fail inside its try block
PredictFailures == {"none", "tokenizer", "model", "label lookup"}

\* lines 86-137: the body of the try block; order is np.argsort's answer
PredictBody(prob, top_k, order, failure) ==
    IF failure # "none" THEN [raised |-> TRUE, error |-> failure]
    ELSE LET top_indices == SliceTo(Reversed(order), top_k)
             top_categories == [i \in 1..Len(top_indices) |-> ReverseMapping[top_indices[i]]]
             top_confidences == [i \in 1..Len(top_indices) |-> prob[top_indices[i]]]
         IN  [raised |-> FALSE,
              result |-> [success |-> TRUE, error |-> "",
                          top_categories |-> top_categories,
                          confidences |-> top_confidences,
                          top_2_categories |-> SliceTo(top_categories, 2)]]

\* the exception leaves predict
PredictUncaught(body) ==
    IF body.raised THEN [raised |-> TRUE] ELSE [raised |-> FALSE, result |-> body.result]

\* lines 139-147: "except Exception as e: return {'error': str(e), ...,
\* 'top_categories': [], 'confidences': [], 'predictions': [], 'success': False}"
PredictCaught(body) ==
    IF body.raised
    THEN [raised |-> FALSE,
          result |-> [success |-> FALSE, error |-> body.error,
                      top_categories |-> <<>>, confidences |-> <<>>,
                      top_2_categories |-> <<>>]]
    ELSE [raised |-> FALSE, result |-> body.result]

\* EmailClassifier.predict(subject, body, top_k): what the caller gets
Predict(prob, top_k, order, failure) ==
    PredictCaught(PredictBody(prob, top_k, order, failure))

\* predict is called on an email for which the model answers prob
PredictCall(prob, top_k, order, failure) ==
    /\ fn = NoFn
    /\ order \in ArgSorts(prob)
    /\ fn' = [op |-> "predict", probabilities |-> prob, top_k |-> top_k,
              failure |-> failure, out |-> Predict(prob, top_k, order, failure)]
    /\ UNCHANGED <<idsFile, emailsFile, handlerVars, storeVars>>

NextPredict ==
    \E prob \in Probabilities, top_k \in (-1)..(MaxLabels + 1),
       order \in [Labels -> Labels], failure \in PredictFailures :
        PredictCall(prob, top_k, order, failure)

SpecPredict == InitStores /\ [][NextPredict]_vars

\* ------------------------------------------ extract_plaintext_from_message
MaxNodes == 3       \* most nodes (payload and nested parts) of a message tree

\* Text is a sequence of tokens: letters, "_" (a blank), "n" (a newline),
\* "<br>" (a line-break tag) and "<t>" (any other tag).
IsSpace(ch) == ch \in {"_", "n"}

RECURSIVE LStrip(_)
LStrip(s) == IF s # <<>> /\ IsSpace(Head(s)) THEN LStrip(Tail(s)) ELSE s

\* python s.strip()
Strip(s) == Reversed(LStrip(Reversed(LStrip(s))))

RECURSIVE JoinChunks(_)
\* "\n\n".join(chunks)
JoinChunks(chunks) ==
    IF chunks = <<>> THEN <<>>
    ELSE IF Len(chunks) = 1 THEN chunks[1]
    ELSE chunks[1] \o <<"n", "n">> \o JoinChunks(Tail(chunks))

RECURSIVE CollapseSpace(_)
\* re.sub(r"\s+", " ", text)
CollapseSpace(s) ==
    IF s = <<>> THEN <<>>
    ELSE IF IsSpace(Head(s))
         THEN <<"_">> \o CollapseSpace(LStrip(s))
         ELSE <<Head(s)>> \o CollapseSpace(Tail(s))

\* _strip_html: <br> to newline, every other tag to a blank, whitespace
\* collapsed, stripped
StripHtml(s) ==
    LET breaks == [i \in 1..Len(s) |-> IF s[i] = "<br>" THEN "n" ELSE s[i]]
        tags   == [i \in 1..Len(breaks) |-> IF breaks[i] = "<t>" THEN "_" ELSE breaks[i]]
    IN  Strip(CollapseSpace(tags))

\* body.data of a node: none, none but an attachmentId, a string that is not
\* base64 ("malformed": decoding raises), the encoding of bytes that are not
\* UTF-8 ("invalid": decoded with errors="ignore" to nothing), or the
\* encoding of a text
NoText(kind) == [kind |-> kind, text |-> <<>>]
Encoded(text) == [kind |-> "text", text |-> text]

PlainTexts == {<<"a">>, <<"_", "b">>}
HtmlTexts == {<<"<t>", "c", "<br>", "c", "<t>">>}
OtherTexts == {<<"d", "_">>}

NodeContents ==
    {[mime |-> "text/plain", data |-> d] :
        d \in {NoText("malformed"), NoText("invalid"), NoText("attachment")}
                \cup {Encoded(t) : t \in PlainTexts}}
    \cup {[mime |-> "text/html", data |-> d] :
              d \in {NoText("attachment")} \cup {Encoded(t) : t \in HtmlTexts}}
    \cup {[mime |-> "multipart/mixed", data |-> d] :
              d \in {NoText("none"), NoText("attachment")} \cup {Encoded(t) : t \in OtherTexts}}

\* parent[i] is the node whose "parts" list holds node i (0 for the payload,
\* node 1); the parts of a node are listed by increasing number
Parents(n) ==
    {f \in [1..n -> 0..(n - 1)] :
        /\ f[1] = 0
        /\ \A i \in 2..n : f[i] >= 1 /\ f[i] < i}

Trees ==
    UNION {{[parent |-> par, node |-> c] : par \in Parents(n), c \in [1..n -> NodeContents]} :
             n \in 1..MaxNodes}

RECURSIVE SortedSeq(_)
SortedSeq(S) ==
    IF S = {} THEN <<>>
    ELSE LET m == CHOOSE x \in S : \A y \in S : x <= y
         IN  <<m>> \o SortedSeq(S \ {m})

\* the parts of a node that is skipped as an attachment are not visited
PartsUnlessAttachment(tree, i) ==
    IF tree.node[i].data.kind = "attachment" THEN <<>>
    ELSE SortedSeq({j \in DOMAIN tree.parent : tree.parent[j] = i})

\* p.get("parts") or []
Parts(tree, i) == SortedSeq({j \in DOMAIN tree.parent : tree.parent[j] = i})

RECURSIVE GatherParts(_, _, _)
\* _gather_parts: "p = stack.pop(); yield p; stack.extend(reversed(parts))"
GatherParts(tree, stack, yielded) ==
    IF stack = <<>> THEN yielded
    ELSE LET p == stack[Len(stack)]
         IN  GatherParts(tree,
                         SubSeq(stack, 1, Len(stack) - 1) \o Reversed(Parts(tree, p)),
                         Append(yielded, p))

HasData(node) == node.data.kind \notin {"none", "attachment"}

\* _b64url_decode(data).decode("utf-8", errors="ignore")
Decode(data) ==
    IF data.kind = "malformed" THEN [raised |-> TRUE, text |-> <<>>]
    ELSE IF data.kind = "invalid" THEN [raised |-> FALSE, text |-> <<>>]
    ELSE [raised |-> FALSE, text |-> data.text]

\* the decoding error leaves the function
DecodeUncaught(data) == Decode(data)

\* "try: raw = ... except Exception: raw = """
DecodeCaught(data) ==
    IF Decode(data).raised THEN [raised |-> FALSE, text |-> <<>>] ELSE Decode(data)

\* raw of the loop body, "" for a node without data
Raw(node) ==
    IF HasData(node) THEN DecodeCaught(node.data) ELSE [raised |-> FALSE, text |-> <<>>]

RECURSIVE Chunks(_, _, _)
\* the loop over _gather_parts: [raised, plain_chunks, html_chunks]
Chunks(tree, parts, acc) ==
    IF parts = <<>> \/ acc.raised THEN acc
    ELSE LET node == tree.node[Head(parts)]
             raw  == Raw(node)
         IN  Chunks(tree, Tail(parts),
                    IF raw.raised THEN [acc EXCEPT !.raised = TRUE]
                    ELSE IF node.mime = "text/plain" /\ raw.text # <<>>
                    THEN [acc EXCEPT !.plain = Append(@, Strip(raw.text))]
                    ELSE IF node.mime = "text/html" /\ raw.text # <<>>
                    THEN [acc EXCEPT !.html = Append(@, raw.text)]
                    ELSE acc)

\* extract_plaintext_from_message(msg) for a msg with this payload:
\* [raised, text]
ExtractPlaintext(tree) ==
    LET acc == Chunks(tree, GatherParts(tree, <<1>>, <<>>),
                      [raised |-> FALSE, plain |-> <<>>, html |-> <<>>])
        root == tree.node[1]
    IN  IF acc.raised THEN [raised |-> TRUE, text |-> <<>>]
        ELSE IF acc.plain # <<>>
        THEN [raised |-> FALSE,
              text |-> Strip(JoinChunks(SelectSeq(acc.plain, LAMBDA c : c # <<>>)))]
        ELSE IF acc.html # <<>>
        THEN [raised |-> FALSE, text |-> StripHtml(JoinChunks(acc.html))]
        ELSE IF HasData(root)
        THEN [raised |-> DecodeCaught(root.data).raised,
              text |-> Strip(DecodeCaught(root.data).text)]
        ELSE [raised |-> FALSE, text |-> <<>>]

\* x += ("\n" if x else "") + t
AddLine(x, t) == x \o (IF x # <<>> THEN <<"n">> ELSE <<>>) \o t

RECURSIVE PartsLoop(_, _, _)
RECURSIVE ExtractPlainText(_, _)
\* gmail_helpers._extract_plain_text, "for p in parts": [collected, html] are
\* collected_text and html_fallback
PartsLoop(tree, parts, acc) ==
    IF parts = <<>> THEN acc
    ELSE LET p  == tree.node[Head(parts)]
             t  == ExtractPlainText(tree, Head(parts))
             bd == Decode(p.data)
         IN  PartsLoop(tree, Tail(parts),
                       IF t # <<>>
                       THEN [acc EXCEPT !.collected = AddLine(@, t)]
                       ELSE IF p.mime = "text/html" /\ HasData(p) /\ ~bd.raised
                       THEN [acc EXCEPT !.html = AddLine(@, bd.text)]
                       ELSE acc)

\* gmail_helpers._extract_plain_text(payload) for the node i as payload
ExtractPlainText(tree, i) ==
    LET node == tree.node[i]
        dec  == DecodeCaught(node.data)
    IN  IF node.mime = "text/plain" /\ HasData(node) THEN Strip(dec.text)
        ELSE LET loop == PartsLoop(tree, Parts(tree, i),
                                   [collected |-> <<>>, html |-> <<>>])
             IN  IF loop.collected # <<>> THEN Strip(loop.collected)
                 ELSE IF node.mime = "text/html" /\ HasData(node)
                 THEN StripHtml(dec.text)
                 ELSE IF loop.html # <<>> THEN StripHtml(loop.html)
                 ELSE IF HasData(node) THEN Strip(dec.text)
                 ELSE <<>>

\* gmail_helpers.get_message: "if _extract_plaintext_from_message is not
\* None: ... else: body_text = _extract_plain_text(payload)"; the name is
\* bound by "from .gmail_client import ..." inside try / except, which
\* succeeds only when gmail_helpers is loaded as part of a package
HelperBody(tree, imported) ==
    IF imported
    THEN IF ExtractPlaintext(tree).raised THEN ExtractPlainText(tree, 1)
         ELSE ExtractPlaintext(tree).text
    ELSE ExtractPlainText(tree, 1)

\* both extractors applied to one message: out is the body of
\* gmail_client.get_message_plain, helper the result of _extract_plain_text,
\* body the body of gmail_helpers.get_message
ExtractCall(tree, imported) ==
    /\ fn = NoFn
    /\ fn' = [op |-> "extract", tree |-> tree, out |-> ExtractPlaintext(tree),
              visited |-> GatherParts(tree, <<1>>, <<>>),
              helper |-> ExtractPlainText(tree, 1),
              imported |-> imported,
              body |-> HelperBody(tree, imported)]
    /\ UNCHANGED <<idsFile, emailsFile, handlerVars, storeVars>>

NextExtract == \E tree \in Trees, imported \in BOOLEAN : ExtractCall(tree, imported)

SpecExtract == InitStores /\ [][NextExtract]_vars

\* ---------------------------------------- the stores when a read goes wrong
\* "with self._lock: ids = self._read_ids()" when _read_json raises (the file
\* cannot be opened or parsed at that moment): "except Exception: return
\* set()", and the method goes on with the empty set
IdsLockAndReadFailing(t) ==
    /\ thread[t].pc = "lock"
    /\ thread[t].op \in IdsOps
    /\ IdsLockFree(lock)
    /\ thread' = [thread EXCEPT ![t].pc = "write", ![t].readIds = {}]
    /\ lock' = [lock EXCEPT !.ids = t]
    /\ UNCHANGED <<idsFile, emailsFile, sh>>
    /\ UNCHANGED <<handlerVars, fn>>

\* one thread on both stores, reads of processed_ids.json failing or not
NextGrow ==
    \/ NextStores
    \/ \E t \in {"t1"} : IdsLockAndReadFailing(t)

SpecGrow == InitStores /\ [][NextGrow]_vars

\* ---------------------------------- upsert and overwrite_all, call by call
\* the ids a caller can write in a record: plain, with blanks around, empty
RawIds == MsgIds \cup {Padded(m) : m \in MsgIds \cup {EmptyId}} \cup {EmptyId}

RawRecords == {Item(m, cats) : m \in RawIds, cats \in CatVersions}

\* one call of upsert(item), run to its end; the file as it was is kept in fn
UpsertCall(item) ==
    /\ emailsFile' = Upsert(emailsFile, item)
    /\ fn' = [op |-> "upsert", items |-> <<item>>, before |-> emailsFile]
    /\ UNCHANGED <<idsFile, handlerVars, storeVars>>

\* one call of overwrite_all(items), run to its end
OverwriteAllCall(items) ==
    /\ emailsFile' = OverwriteAll(emailsFile, items)
    /\ fn' = [op |-> "overwrite_all", items |-> items, before |-> emailsFile]
    /\ UNCHANGED <<idsFile, handlerVars, storeVars>>

NextFrame ==
    \/ \E item \in RawRecords : UpsertCall(item)
    \/ \E items \in SeqsUpTo(RawRecords, MaxItems) : OverwriteAllCall(items)

SpecFrame == InitStores /\ [][NextFrame]_vars

TypeOK ==
    /\ idsFile \subseteq MsgIds \cup {EmptyId}
    /\ emailsFile.shape \in {"dict", "list"}
    /\ DOMAIN emailsFile.emails \subseteq MsgIds

\* ======================================================================
\* Properties
\* ======================================================================
IngestionKinds == {"fc", "emails", "fetch_emails"}

Ended(c) == call[c].pc \in {"done", "error"}

\* C1: in /fetch-and-classify, at every point of every execution, an ID the
\* call has added to the processed-ID file has a record in the record file
\* (the ID is marked only after its record is written).
C1_MarkedOnlyAfterRecord ==
    \A c \in Calls :
        call[c].kind = "fc" =>
            \A m \in h[c].added : m \in StoredIds(emailsFile)

\* C2: when an ingestion call has ended, normally or with an error, the IDs
\* it added to the processed-ID file are exactly the IDs of the records it
\* wrote to the record file.
C2_AddedEqualsWritten ==
    \A c \in Calls :
        (call[c].kind \in IngestionKinds /\ Ended(c)) => h[c].added = h[c].wrote

\* C3: a message whose classification in an ingestion call was unsuccessful
\* or gave fewer than two labels gets no record written and its ID is not
\* added by that call, on the batch path and on the fallback path.
C3_BadResultNeverStored ==
    \A c \in Calls :
        call[c].kind \in IngestionKinds =>
            \A m \in h[c].bad \ h[c].good :
                /\ m \notin h[c].wrote
                /\ m \notin h[c].added
                /\ m \notin ItemIds(call[c].new_results)

\* a finished /fetch-and-classify call that went through the fallback, dropped
\* one message for its classification result and stored another
C3_Witness ==
    \E c \in Calls :
        /\ call[c].kind = "fc" /\ call[c].pc = "done"
        /\ h[c].single # <<>>
        /\ h[c].bad \ h[c].good # {}
        /\ h[c].wrote # {}

\* C4: every record in the record file has exactly two categories.
C4_TwoCategories ==
    \A r \in GetAll(emailsFile) : Len(r.categories) = 2

\* a record is stored that was cut from a ranking of three labels, next to a
\* call that dropped a result with fewer than two
C4_Witness ==
    /\ \E r \in GetAll(emailsFile) : r.categories = <<"B", "A">>
    /\ \E c \in Calls : Ended(c) /\ h[c].bad # {} /\ h[c].wrote # {}

\* the first n elements of L that are not in P, in the order of L
RECURSIVE FirstUnprocessed(_, _, _)
FirstUnprocessed(L, P, n) ==
    IF L = <<>> \/ n = 0 THEN <<>>
    ELSE IF Head(L) \in P THEN FirstUnprocessed(Tail(L), P, n)
    ELSE <<Head(L)>> \o FirstUnprocessed(Tail(L), P, n - 1)

\* the number of elements of L that are not in P
Unprocessed(L, P) == Cardinality({k \in 1..Len(L) : L[k] \notin P})

Appended(old, new) == {new[k] : k \in (Len(old) + 1)..Len(new)}

C7_FallbackPersistsSuccesses ==
    \A c \in Calls :
        (call[c].kind = "fc" /\ Ended(c) /\ h[c].fetched # <<>> /\ ~h[c].batchReturned) =>
            /\ h[c].single = h[c].fetched
            /\ \A m \in h[c].good : m \in h[c].wrote /\ Has(idsFile, m)

C9_FailedFetchLeavesNoTrace ==
    \A c \in Calls :
        call[c].kind = "fc" =>
            \A m \in h[c].fetchFailed \ Range(h[c].fetched) :
                /\ m \notin h[c].added
                /\ m \notin h[c].wrote
                /\ ~Has(idsFile, m)
                /\ m \in Range(FirstUnprocessed(<<m>>, ReadIds(idsFile), 1))

\* a finished call that lost one message to a fetch failure and stored another
C9_Witness ==
    \E c \in Calls :
        /\ call[c].kind = "fc" /\ call[c].pc = "done"
        /\ h[c].fetchFailed \ Range(h[c].fetched) # {}
        /\ h[c].wrote # {}

\* C10: in no ingestion entry point does the failure of one fetch end the
\* call with an error.
C10_FetchFailureNeverFatal ==
    [][\A c \in Calls :
        (call'[c].kind \in IngestionKinds /\ h'[c].fetchFailed \ h[c].fetchFailed # {})
            => call'[c].pc # "error"]_vars

\* C11: when predict_batch failed as a whole and no fetched message got a
\* usable result from the single-message fallback (also with no classifier
\* loaded), /fetch-and-classify does not end with an error, its response has
\* new_count = 0 and an empty processed list, and the call has changed
\* neither store file.
C11_AllFailedIsEmptySuccess ==
    \A c \in Calls :
        (/\ call[c].kind = "fc"
         /\ call[c].pc \in {"fc_persist", "done", "error"}
         /\ h[c].fetched # <<>> /\ ~h[c].batchReturned
         /\ h[c].good = {}) =>
            /\ call[c].pc # "error"
            /\ Response(c).new_count = 0
            /\ Response(c).processed = <<>>
            /\ h[c].added = {} /\ h[c].wrote = {}

\* a finished call with no classifier loaded whose two fetched messages all
\* went through the fallback
C11_Witness ==
    \E c \in Calls :
        /\ classifier = "None"
        /\ call[c].kind = "fc" /\ call[c].pc = "done"
        /\ Len(h[c].fetched) >= 2
        /\ h[c].single = h[c].fetched

\* C12: when the write to the record file raises in an ingestion call, the
\* call ends with an error and has changed neither the record file nor the
\* processed-ID file.
C12_RecordWriteFailureLeavesStores ==
    \A c \in Calls :
        (call[c].kind \in IngestionKinds /\ h[c].recordWriteFailed) =>
            /\ call[c].pc = "error"
            /\ h[c].added = {}
            /\ h[c].wrote = {}

\* C19: a /reclassify call that has ended successfully fetched and classified
\* its ID (marked before or not), the record stored under the ID is the
\* record it built, whole, and the ID is in the processed-ID file; a call
\* whose fetch or classification failed ends with an error and has changed
\* neither file.
C19_ReclassifyReplaces ==
    \A c \in Calls :
        call[c].kind = "reclassify" =>
            /\ call[c].pc = "done" =>
                  LET item == call[c].new_results[1]
                  IN  /\ h[c].fetched = <<item.id>> /\ h[c].single = <<item.id>>
                      /\ item.id \in StoredIds(emailsFile)
                      /\ EmailsOf(emailsFile)[item.id] = item
                      /\ Has(idsFile, item.id)
            /\ (h[c].fetchFailed # {} \/ h[c].bad # {}) =>
                  /\ call[c].pc = "error"
                  /\ h[c].added = {} /\ h[c].wrote = {}

\* a finished /reclassify of an ID that was marked before and whose earlier
\* record, still in the cache, differs from the one now stored
C19_Witness ==
    \E c \in Calls :
        /\ call[c].kind = "reclassify" /\ call[c].pc = "done"
        /\ h[c].added = {}
        /\ \E k \in 1..Len(cache) :
              /\ cache[k].id = call[c].new_results[1].id
              /\ cache[k] # call[c].new_results[1]

\* ----------------------------------------------------- the stores themselves
\* the step in which t's temporary file is renamed over the target
Committing(t) == thread[t].pc = "replace" /\ thread'[t].pc = "done"

RecIds(recs) == {r.id : r \in recs}

\* C13: when two upsert / upsert_many calls on one ProcessedEmailsStore ran
\* at the same time with disjoint ids, then, both having returned, the store
\* holds every record of both; and the write of an upsert call keeps every
\* record that was stored under another id.
C13_ConcurrentUpsertsKeepBoth ==
    /\ [](\A t \in Threads : \A u \in Threads \ {t} :
            (/\ thread[t].pc = "done" /\ thread[u].pc = "done"
             /\ thread[t].op \in UpsertOps /\ thread[u].op \in UpsertOps
             /\ (thread[t].overlapped \/ thread[u].overlapped)
             /\ DOMAIN thread[t].updates \cap DOMAIN thread[u].updates = {}) =>
                \A m \in DOMAIN thread[t].updates :
                    /\ m \in StoredIds(emailsFile)
                    /\ EmailsOf(emailsFile)[m] = thread[t].updates[m])
    /\ [][\A t \in Threads :
            (Committing(t) /\ thread[t].op \in UpsertOps) =>
                \A m \in StoredIds(emailsFile) \ DOMAIN thread[t].updates :
                    /\ m \in StoredIds(emailsFile')
                    /\ EmailsOf(emailsFile')[m] = EmailsOf(emailsFile)[m]]_vars

\* two upsert calls for different ids have both returned, one of them called
\* while the other was running
C13_Witness ==
    \E t \in Threads : \E u \in Threads \ {t} :
        /\ thread[t].pc = "done" /\ thread[u].pc = "done"
        /\ thread[t].op \in UpsertOps /\ thread[u].op \in UpsertOps
        /\ thread[u].overlapped
        /\ DOMAIN thread[t].updates # {} /\ DOMAIN thread[u].updates # {}
        /\ DOMAIN thread[t].updates \cap DOMAIN thread[u].updates = {}

C15_CrashLeavesOldOrNew ==
    /\ [](\A t \in Threads :
            Writing(thread[t]) =>
                IF thread[t].op \in IdsOps THEN idsFile = thread[t].readIds
                ELSE emailsFile = thread[t].readEmails)
    /\ [][/\ \A t \in Threads :
                Committing(t) =>
                    IF thread[t].op \in IdsOps
                    THEN idsFile' = IdsAfter(thread[t]) /\ emailsFile' = emailsFile
                    ELSE emailsFile' = EmailsAfter(thread[t]) /\ idsFile' = idsFile
          /\ sh'.crashed =>
                /\ idsFile' = idsFile /\ emailsFile' = emailsFile
                /\ emailsFile'.shape \in {"dict", "list"}]_vars

\* the process has died while a temporary file was partly written, with both
\* files holding something
C15_Witness ==
    /\ sh.crashed /\ sh.torn
    /\ idsFile # {}
    /\ StoredIds(emailsFile) # {}

\* C16: the write of upsert / upsert_many is WithUpdates of the file read;
\* applying the same call to the file it has written gives that file again
\* (also through upsert, record by record), and a call whose records are all
\* stored as given already leaves the stored records as they are.
C16_UpsertIdempotent ==
    [][\A t \in Threads :
        (Committing(t) /\ thread[t].op \in UpsertOps) =>
            LET upd == thread[t].updates
            IN  /\ emailsFile' = WithUpdates(emailsFile, upd)
                /\ WithUpdates(emailsFile', upd) = emailsFile'
                /\ \A m \in DOMAIN upd : Upsert(emailsFile', upd[m]) = emailsFile'
                /\ (\A m \in DOMAIN upd :
                        m \in StoredIds(emailsFile) /\ EmailsOf(emailsFile)[m] = upd[m])
                      => EmailsOf(emailsFile') = EmailsOf(emailsFile)]_vars

\* upsert_many of two records is about to write a second time: the file it
\* read holds exactly these two records already
C16_Witness ==
    \E t \in Threads :
        /\ thread[t].pc = "replace" /\ thread[t].op = "upsert_many"
        /\ Cardinality(DOMAIN thread[t].updates) = 2
        /\ thread[t].readEmails.shape = "dict"
        /\ thread[t].readEmails.emails = thread[t].updates

C18_RoundTripAcrossRestart ==
    [][/\ \A t \in Threads :
            (Committing(t) /\ thread[t].op = "upsert_many") =>
                RecIds(GetAll(emailsFile')) =
                    DOMAIN thread[t].updates \cup RecIds(GetAll(emailsFile))
       /\ sh'.crashed =>
            /\ GetAll(emailsFile') = GetAll(emailsFile)
            /\ ReadIds(idsFile') = ReadIds(idsFile)]_vars

\* the process has just been started again over a record file that holds two
\* records
C18_Witness ==
    /\ sh.crashed
    /\ emailsFile.shape = "dict"
    /\ Cardinality(RecIds(GetAll(emailsFile))) = 2

\* C20: the record file is always in the flat-list shape (first-use creation
\* and every write emit it), and get_all returns the records the file holds,
\* in whichever shape it is.
C20_ListShapeWritten ==
    /\ emailsFile.shape = "list"
    /\ GetAll(emailsFile) = {emailsFile.emails[m] : m \in DOMAIN emailsFile.emails}

\* ------------------------------------------------------- list_message_ids
\* C21: every page request of list_message_ids (max_results >= 1) asks for
\* min(max_results - number of IDs accumulated, 100) messages, and a request
\* is made only while fewer than max_results IDs are accumulated and, after
\* the first page, only when the page before came with a continuation token.
C21_PageSizeIsMinRemaining ==
    [][(fn.op = "list" /\ fn'.op = "list" /\ Len(fn'.asked) > Len(fn.asked)) =>
          /\ fn'.asked[Len(fn'.asked)] = Min(fn.max_results - Len(fn.ids), PageCap)
          /\ Len(fn.ids) < fn.max_results
          /\ (fn.asked = <<>> \/ fn.lastToken)]_vars

\* a listing of more than one page whose second request asked for fewer
\* messages than the first
C21_Witness ==
    /\ fn.op = "list"
    /\ Len(fn.asked) >= 2
    /\ fn.asked[2] < fn.asked[1]
    /\ fn.asked[1] = PageCap

\* C22: the list list_message_ids returns has at most max_results elements
\* and holds no ID twice, whatever the provider's pages were.
C22_AtMostMaxNoDuplicates ==
    (fn.op = "list" /\ fn.pc = "done") =>
        /\ Len(fn.result) <= fn.max_results
        /\ \A i \in 1..Len(fn.result) : \A j \in 1..Len(fn.result) :
              (i # j) => (fn.result[i] # fn.result[j])

\* C23: when a page request raised after failedAfter pages were read, no
\* further request is made, nothing is raised to the caller, and the list
\* returned is the IDs accumulated from those pages, cut to max_results.
C23_PageFailureReturnsPartial ==
    (fn.op = "list" /\ fn.failedAfter >= 0) =>
        /\ ~fn.raised
        /\ Len(fn.asked) = fn.failedAfter + 1
        /\ fn.pc \in {"return", "done"}
        /\ fn.pc = "done" => fn.result = SliceTo(fn.ids, fn.max_results)

\* the third request raised and the IDs of two pages have been returned
C23_Witness ==
    /\ fn.op = "list" /\ fn.pc = "done"
    /\ fn.failedAfter = 2
    /\ Len(fn.result) > PageCap

\* C24: /fetch-and-classify lists with max_results = 50 when ten times the
\* requested count is at most 50, 500 when it is at least 500, and ten times
\* the requested count in between: min(500, max(50, requested * 10)), always
\* within 50..500.
C24_SearchWindow ==
    fn.op = "listing" =>
        LET n == fn.requested
            w == fn.list_max_results
        IN  /\ (n * 10 <= 50) => (w = 50)
            /\ (n * 10 >= 500) => (w = 500)
            /\ (50 < n * 10 /\ n * 10 < 500) => (w = n * 10)
            /\ 50 <= w /\ w <= 500

\* a requested count whose tenfold exceeds the cap
C24_Witness ==
    /\ fn.op = "listing"
    /\ fn.requested * 10 > 500
    /\ fn.list_max_results = 500

\* C25: predict never raises to its caller; when the tokenizer, the model or
\* the label lookup failed its result has success = FALSE, an error
\* description and empty label and confidence lists; a successful result has
\* as many confidences as labels, each the confidence of its label, in
\* non-increasing order.
C25_PredictNeverRaises ==
    fn.op = "predict" =>
        /\ ~fn.out.raised
        /\ LET r == fn.out.result
           IN  /\ r.success = (fn.failure = "none")
               /\ ~r.success =>
                     /\ r.error # ""
                     /\ r.top_categories = <<>> /\ r.confidences = <<>>
               /\ r.success =>
                     /\ Len(r.confidences) = Len(r.top_categories)
                     /\ \A i \in 1..Len(r.top_categories) :
                           \E l \in Labels :
                               /\ r.top_categories[i] = ReverseMapping[l]
                               /\ r.confidences[i] = fn.probabilities[l]
                     /\ \A i \in 1..(Len(r.confidences) - 1) :
                           r.confidences[i] >= r.confidences[i + 1]

\* a successful result with two labels of different confidence, the last
\* label of the model ranking above the first
C25_Witness ==
    /\ fn.op = "predict"
    /\ fn.out.result.success
    /\ Len(fn.out.result.top_categories) = 2
    /\ fn.out.result.confidences[1] > fn.out.result.confidences[2]
    /\ fn.probabilities[1] < fn.probabilities[MaxLabels]

\* C26: when /fetch-and-classify has called predict_batch of the loaded
\* EmailClassifier with its emails, top_k and batch_size, the call has
\* returned a list of results, one per email in the order of the emails (a
\* failure on one email being that email's unsuccessful result).
C26_BatchOneResultPerInput ==
    \A c \in Calls :
        (call[c].kind = "fc" /\ classifier = "EmailClassifier" /\ h[c].batched # <<>>) =>
            /\ h[c].batchReturned
            /\ call[c].pc = "fc_batch_loop" =>
                  Len(call[c].batch_results) = Len(call[c].messages_data)

\* ------------------------------------------ extract_plaintext_from_message
RECURSIVE PreOrderAll(_, _)
\* the nodes below and including each node of roots, depth first, a node
\* before its parts
PreOrderAll(tree, roots) ==
    IF roots = <<>> THEN <<>>
    ELSE <<Head(roots)>> \o PreOrderAll(tree, Parts(tree, Head(roots)))
                         \o PreOrderAll(tree, Tail(roots))

\* the decoded contents, trimmed, of the plain-text nodes with inline data,
\* in pre-order, those that are empty left out
PlainContents(tree) ==
    LET nodes  == SelectSeq(PreOrderAll(tree, <<1>>),
                            LAMBDA i : /\ tree.node[i].mime = "text/plain"
                                       /\ HasData(tree.node[i]))
        texts  == [k \in 1..Len(nodes) |-> Strip(DecodeCaught(tree.node[nodes[k]].data).text)]
    IN  SelectSeq(texts, LAMBDA c : c # <<>>)

\* C27: for a message tree with at least one plain-text node that has inline
\* data, extract_plaintext_from_message returns the decoded contents of the
\* plain-text nodes in depth-first pre-order, joined by a blank line and
\* trimmed, and nothing that comes from a markup node or from another node.
C27_PlainNodesOnlyInPreOrder ==
    (/\ fn.op = "extract"
     /\ \E i \in DOMAIN fn.tree.node :
           fn.tree.node[i].mime = "text/plain" /\ HasData(fn.tree.node[i])) =>
        fn.out.text = Strip(JoinChunks(PlainContents(fn.tree)))

\* C28: extract_plaintext_from_message raises for no message tree, and when
\* no node has data other than data that is malformed or decodes to invalid
\* bytes only, the string returned is empty.
C28_ExtractNeverRaises ==
    fn.op = "extract" =>
        /\ ~fn.out.raised
        /\ (\A i \in DOMAIN fn.tree.node :
                fn.tree.node[i].data.kind \in {"none", "attachment", "malformed", "invalid"})
              => fn.out.text = <<>>

\* a tree of three nodes: malformed data in a plain-text part below the
\* payload, invalid bytes in a plain-text part nested in it
C28_Witness ==
    /\ fn.op = "extract"
    /\ DOMAIN fn.tree.node = 1..3
    /\ fn.tree.parent[3] = 2
    /\ fn.tree.node[2].data.kind = "malformed"
    /\ fn.tree.node[3].data.kind = "invalid"
    /\ fn.out.text = <<>>

\* C29: no step of add, add_many, upsert, upsert_many (nor of
\* save_classified or of a restart) takes an ID out of the processed-ID file
\* or a record out of the record file, in whichever shape the file holds
\* its records and whether or not the read of the file succeeded; only
\* overwrite_all replaces the records.
C29_StoresOnlyGrow ==
    [][(~\E t \in Threads : Committing(t) /\ thread[t].op = "overwrite_all") =>
          /\ ReadIds(idsFile) \subseteq ReadIds(idsFile')
          /\ DOMAIN ReadEmailsList(emailsFile) \subseteq DOMAIN ReadEmailsList(emailsFile')]_vars

\* C30: when a /fetch-and-classify call has fetched and classified a message
\* m that was not marked and that the /fetch-and-classify call before it had
\* fetched and classified too, then, both calls having completed, the record
\* file holds a record for m that one of the two calls produced, m is in the
\* processed-ID file, and no ID and no record known before is missing.
C30_SameMessageTwiceIsConsistent ==
    \A c \in Calls :
        (call[c].kind = "fc" /\ call[c].pc = "done") =>
            \A m \in (h[c].earlier \cap h[c].good) \ h[c].P :
                /\ m \in StoredIds(emailsFile)
                /\ \/ \E k \in 1..Len(call[c].new_results) :
                         call[c].new_results[k] = EmailsOf(emailsFile)[m]
                   \/ \E k \in 1..Len(cache) : cache[k] = EmailsOf(emailsFile)[m]
                /\ Has(idsFile, m)
                /\ h[c].P \subseteq ReadIds(idsFile)
                /\ \A k \in 1..Len(cache) : cache[k].id \in StoredIds(emailsFile)

\* the ids of items, one per item, in order
IdSeq(items) == [k \in 1..Len(items) |-> items[k].id]

\* s holds no value twice
NoRepeat(s) == \A i, j \in 1..Len(s) : s[i] = s[j] => i = j

\* C32: for every successful /fetch-and-classify call, new_count is the
\* number of distinct IDs whose records the call wrote, and the processed
\* list of the response has exactly one entry per such ID, also when the call
\* went through the fallback after the batch loop had assembled records.
C32_NewCountIsDistinctWritten ==
    \A c \in Calls :
        (call[c].kind = "fc" /\ call[c].pc = "done") =>
            /\ Response(c).new_count = Cardinality(h[c].wrote)
            /\ NoRepeat(IdSeq(Response(c).processed))
            /\ Range(IdSeq(Response(c).processed)) = h[c].wrote

\* C34: after any sequence of ingestion and reclassify calls, the cache
\* PROCESSED_ITEMS holds at most one entry per ID, also when two calls
\* produced the same ID (the handlers have no await, so one merge ends
\* before the next begins).
C34_CacheOneEntryPerId == NoRepeat(IdSeq(cache))

\* a call has merged a result whose ID the cache held already from another
\* call, and the cache holds entries for two IDs
C34_Witness ==
    \E c \in Calls :
        /\ call[c].pc = "done"
        /\ call[c].kind \in IngestionKinds \cup {"reclassify"}
        /\ Len(cache) = 2
        /\ \E k \in 1..Len(call[c].new_results), j \in 1..Len(cache) :
              /\ call[c].new_results[k].id = cache[j].id
              /\ call[c].new_results[k] # cache[j]

\* C36: for every integer max_results given to /fetch-and-classify, zero and
\* negative values included, the call fetches, and so classifies, at most
\* max(0, max_results) messages.
C36_AtMostMaxResultsFetched ==
    \A c \in Calls :
        (call[c].kind = "fc" /\ call[c].pc = "fc_fetch") =>
            /\ Len(h[c].attempted) <= Max(0, call[c].max_results)
            /\ Len(call[c].messages_data) <= Max(0, call[c].max_results)

\* C37: after any sequence of completed ingestion and reclassify calls, every
\* entry of the cache PROCESSED_ITEMS equals the record stored under the same
\* ID in the record file, so the cache never shows an older record.
C37_CacheEqualsStore ==
    (\A c \in Calls : call[c].pc \in {"idle", "done"}) =>
        \A k \in 1..Len(cache) :
            /\ cache[k].id \in StoredIds(emailsFile)
            /\ EmailsOf(emailsFile)[cache[k].id] = cache[k]

\* C33: whatever the store holds, after upsert(r) of a record r with a
\* non-empty id, get(r.id) returns r in full and get(j) returns what it
\* returned before for every other ID j; after overwrite_all(R), get_all
\* returns exactly the records of R with a non-empty id, one per id, and
\* nothing that was stored before.
C33_UpsertAndOverwriteFrame ==
    /\ fn.op = "upsert" =>
          LET r == fn.items[1]
          IN  r.id # EmptyId =>
                 /\ Get(emailsFile, r.id) = r
                 /\ \A j \in RawIds \ {r.id} :
                        Get(emailsFile, j) = Get(fn.before, j)
    /\ fn.op = "overwrite_all" =>
          LET given == {rec \in Range(fn.items) : rec.id # EmptyId}
          IN  /\ GetAll(emailsFile) \subseteq given
              /\ \A m \in {rec.id : rec \in given} :
                     Cardinality({rec \in GetAll(emailsFile) : rec.id = m}) = 1

\* the tree with node i replaced by a node that has no body at all
Emptied(tree, i) ==
    [tree EXCEPT !.node[i] = [mime |-> "multipart/mixed", data |-> NoText("none")]]

\* C35: a node that carries an attachment reference and no inline data adds
\* nothing to the extracted body whatever its type tag (the body is the one
\* extracted with the node emptied), and the parts below it are still
\* visited.
C35_AttachmentNodesSkipped ==
    fn.op = "extract" =>
        \A i \in DOMAIN fn.tree.node :
            fn.tree.node[i].data.kind = "attachment" =>
                /\ fn.out = ExtractPlaintext(Emptied(fn.tree, i))
                /\ \A j \in DOMAIN fn.tree.parent :
                       fn.tree.parent[j] = i => j \in Range(fn.visited)

\* the payload is tagged text/plain and is an attachment reference only, the
\* text/html node below it is one too, and the plain text below that one is
\* the body
C35_Witness ==
    /\ fn.op = "extract"
    /\ DOMAIN fn.tree.node = 1..3
    /\ fn.tree.node[1] = [mime |-> "text/plain", data |-> NoText("attachment")]
    /\ fn.tree.node[2] = [mime |-> "text/html", data |-> NoText("attachment")]
    /\ fn.tree.parent[3] = 2
    /\ fn.tree.node[3] = [mime |-> "text/plain", data |-> Encoded(<<"_", "b">>)]
    /\ fn.out = [raised |-> FALSE, text |-> <<"b">>]

\* C39: for every message tree, gmail_helpers._extract_plain_text returns
\* the body gmail_client.extract_plaintext_from_message returns, so the body
\* gmail_helpers.get_message stores on the /emails path is the one
\* /fetch-and-classify stores for the same message.
C39_ExtractorsAgree ==
    fn.op = "extract" =>
        /\ fn.helper = fn.out.text
        /\ fn.body = fn.out.text

\* C38: when /clear-user-data has returned success, has(id) is false for
\* every ID, get_all() is empty and the cache is empty, whatever ingestion
\* and reclassify calls wrote to the stores before the clear returned (no
\* handler has an await, so no call runs between the first and the last line
\* of the clear).
C38_ClearLeavesNothing ==
    \A c \in Calls :
        (call[c].kind = "clear" /\ call[c].pc = "done") =>
            /\ \A m \in MsgIds : ~Has(idsFile, m)
            /\ GetAll(emailsFile) = {}
            /\ cache = <<>>

\* a successful clear of stores in which two IDs were marked and two records
\* were stored
C38_Witness ==
    \E c \in Calls :
        /\ call[c].kind = "clear" /\ call[c].pc = "done"
        /\ Cardinality(h[c].P) = 2
        /\ Cardinality(h[c].earlier) = 2
        /\ emailsFile.shape = "list"

\* C40: whatever pages the provider returns, with or without a token, with
\* or without usable IDs, as long as every page request returns,
\* list_message_ids makes finitely many page requests and then returns.
C40_ListingTerminates ==
    (fn.op = "paging") ~> (fn.op = "paging" /\ fn.pc = "done")

\* C31: when /fetch-and-classify is called again and again, the message
\* Wanted is in every listing and every fetch and every classification of it
\* succeeds with at least two labels, then eventually the record file holds
\* a record for Wanted and Wanted is in the processed-ID file, whatever the
\* other listed messages do.
C31_WantedEventuallyProcessed ==
    <>(Wanted \in StoredIds(emailsFile) /\ Has(idsFile, Wanted))

====
